---- MODULE Spec2Model ----
(***************************************************************************)
(* A model of the benchmark scheduling and result-aggregation engine of    *)
(* madara-bench: the Merger (app/__init__.py), the input generators        *)
(* (app/benchmarks/generators.py), the Scheduler and Aggregator            *)
(* (app/benchmarks/__init__.py) and the periodic job with its store        *)
(* (app/database/__init__.py).                                             *)
(*                                                                         *)
(* The module holds several specifications over one set of variables; a    *)
(* specification leaves the variables of the other parts at their idle     *)
(* values.                                                                 *)
(***************************************************************************)
EXTENDS Integers, Sequences, FiniteSets, TLC

VARIABLES
    \* ---- Merger ----
    xs,         \* the list handed to apply_sort, as values (before any merge)
    objs,       \* the summary objects of that list, by identity (index); merging mutates them
    acc,        \* the accumulator of functools.reduce: a list of object identities
    out,        \* what the merge returned, as values at the time it returned
    out_perm,   \* the merge of a permutation of xs, as values
    out_twice,  \* the merge of the merge, as values
    mstep,      \* position of the merge run
    \* ---- Chain and input generators ----
    urls,       \* the targets of a session, in dict order: a list of node names
    heights,    \* node -> the block number that node reports (starknet_blockNumber)
    chain,      \* the blocks of the chain; chain[b + 1] is block number b
    starknet_version,   \* the protocol version of the chain's blocks, as a string
    gen_out,    \* the outcome of the last next() on the input generator
    \* ---- One session of benchmarks.benchmark_rpc ----
    pc,         \* where the session is: gen, probe_block, probe_sync, bench, done, raised
    session,    \* its arguments: rpc_call, samples, interval
    inputs,     \* the inputs drawn from the generator
    block_nos,  \* per target, the block number its probe returned (-1: not yet)
    sync_status,    \* per target, what its syncing probe returned ("": not yet)
    futures_bench,  \* per target, per sample: the timed call and its state
    cur,        \* the target whose asyncio.gather is being awaited (0: none yet)
    launched,   \* per target, the instant its gather was started (-1: not yet)
    issued,     \* the runner calls made so far, in order
    now,        \* the clock, in ticks
    result,     \* what the session returned, or the error it raised
    \* ---- The store and the query endpoints ----
    BlockDB,            \* the ids of the rows of table blockdb
    BenchmarkRpcDB,     \* the rows of table benchmarkrpcdb, in the order they were added
    BenchmarkSystemDB,  \* the rows of table benchmarksystemdb, in the order they were added
    cycles,             \* the number of runs of the periodic job that stored rows
    response,           \* the last response of a query endpoint
    routine             \* db_bench_routine: whether it still runs, and its last log line

merge_vars == <<xs, objs, acc, out, out_perm, out_twice, mstep>>

chain_vars == <<urls, heights, chain, starknet_version>>

bench_vars == <<pc, session, inputs, block_nos, sync_status, futures_bench, cur, launched,
                issued, now, result>>

store_vars == <<BlockDB, BenchmarkRpcDB, BenchmarkSystemDB, cycles, response, routine>>

vars == <<merge_vars, chain_vars, gen_out, bench_vars, store_vars>>

\* The values of a part's variables under a specification that does not use it.
IdleMerge ==
    /\ xs = <<>>
    /\ objs = <<>>
    /\ acc = <<>>
    /\ out = <<>>
    /\ out_perm = <<>>
    /\ out_twice = <<>>
    /\ mstep = "idle"

IdleBench ==
    /\ pc = "idle"
    /\ session = <<>>
    /\ inputs = <<>>
    /\ block_nos = <<>>
    /\ sync_status = <<>>
    /\ futures_bench = <<>>
    /\ cur = 0
    /\ launched = <<>>
    /\ issued = <<>>
    /\ now = 0
    /\ result = <<>>

IdleStore ==
    /\ BlockDB = {}
    /\ BenchmarkRpcDB = <<>>
    /\ BenchmarkSystemDB = <<>>
    /\ cycles = 0
    /\ response = <<>>
    /\ routine = <<>>

IdleChain ==
    /\ urls = <<>>
    /\ heights = <<>>
    /\ chain = <<>>
    /\ starknet_version = <<>>
    /\ gen_out = [kind |-> "idle"]

\* -------------------------------------------------------------------------
\* Bounds and value domains
\* -------------------------------------------------------------------------

\* Longest list of summaries handed to the Merger.
MaxLen == 3

\* Block numbers and elapsed times (ns) the summaries are drawn from.
BlockNumbers == {1, 2}
ElapsedValues == {0, 1, 2}

Min2(a, b) == IF a <= b THEN a ELSE b
Max2(a, b) == IF a >= b THEN a ELSE b

\* NodeSummary, RPC variant, with the invariant elapsed_low <= elapsed_avg <= elapsed_high.
NodeResponseBenchRpc(node, block_number, elapsed_avg, elapsed_low, elapsed_high) ==
    [node |-> node, block_number |-> block_number, elapsed_avg |-> elapsed_avg,
     elapsed_low |-> elapsed_low, elapsed_high |-> elapsed_high]

Summaries ==
    {NodeResponseBenchRpc("madara", b, a, l, h) :
        <<b, a, l, h>> \in {t \in BlockNumbers \X ElapsedValues \X ElapsedValues \X ElapsedValues :
                                t[3] <= t[2] /\ t[2] <= t[4]}}

SeqsUpTo(S, n) == UNION {[1..k -> S] : k \in 0..n}

\* -------------------------------------------------------------------------
\* Merger: app/__init__.py
\* -------------------------------------------------------------------------

apply_key(x) == x.block_number

\* sorted(l, key=apply_key): stable, ascending. l is a list of object identities.
RECURSIVE InsertSorted(_, _, _)
InsertSorted(heap, sorted, id) ==
    IF sorted = <<>> THEN <<id>>
    ELSE IF apply_key(heap[sorted[Len(sorted)]]) <= apply_key(heap[id])
         THEN Append(sorted, id)
         ELSE Append(InsertSorted(heap, SubSeq(sorted, 1, Len(sorted) - 1), id),
                     sorted[Len(sorted)])

RECURSIVE SortFrom(_, _, _)
SortFrom(heap, l, sorted) ==
    IF l = <<>> THEN sorted
    ELSE SortFrom(heap, Tail(l), InsertSorted(heap, sorted, Head(l)))

apply_sort(heap, l) == SortFrom(heap, l, <<>>)

\* A variant that appends the incoming summary also after combining it.
deduplicate_merge_rpc_always_append(st, resp) ==
    LET n == Len(st.acc) IN
    IF n > 0 /\ st.heap[st.acc[n]].block_number = st.heap[resp].block_number
    THEN LET t == st.acc[n] IN
         [heap |-> [st.heap EXCEPT ![t] =
                      [@ EXCEPT !.elapsed_avg = (@ + st.heap[resp].elapsed_avg) \div 2,
                                !.elapsed_low = Min2(@, st.heap[resp].elapsed_low),
                                !.elapsed_high = Max2(@, st.heap[resp].elapsed_high)]],
          acc |-> Append(st.acc, resp)]
    ELSE [heap |-> st.heap, acc |-> Append(st.acc, resp)]

\* A variant that rounds the average of averages up.
deduplicate_merge_rpc_round_up(st, resp) ==
    LET n == Len(st.acc) IN
    IF n > 0 /\ st.heap[st.acc[n]].block_number = st.heap[resp].block_number
    THEN LET t == st.acc[n] IN
         [heap |-> [st.heap EXCEPT ![t] =
                      [@ EXCEPT !.elapsed_avg = (@ + st.heap[resp].elapsed_avg + 1) \div 2,
                                !.elapsed_low = Min2(@, st.heap[resp].elapsed_low),
                                !.elapsed_high = Max2(@, st.heap[resp].elapsed_high)]],
          acc |-> st.acc]
    ELSE [heap |-> st.heap, acc |-> Append(st.acc, resp)]

\* A variant that adds the averages up without halving the sum.
deduplicate_merge_rpc_sum(st, resp) ==
    LET n == Len(st.acc) IN
    IF n > 0 /\ st.heap[st.acc[n]].block_number = st.heap[resp].block_number
    THEN LET t == st.acc[n] IN
         [heap |-> [st.heap EXCEPT ![t] =
                      [@ EXCEPT !.elapsed_avg = @ + st.heap[resp].elapsed_avg,
                                !.elapsed_low = Min2(@, st.heap[resp].elapsed_low),
                                !.elapsed_high = Max2(@, st.heap[resp].elapsed_high)]],
          acc |-> st.acc]
    ELSE [heap |-> st.heap, acc |-> Append(st.acc, resp)]

\* A variant that keeps the bounds of the summary met first.
deduplicate_merge_rpc_first_bounds(st, resp) ==
    LET n == Len(st.acc) IN
    IF n > 0 /\ st.heap[st.acc[n]].block_number = st.heap[resp].block_number
    THEN LET t == st.acc[n] IN
         [heap |-> [st.heap EXCEPT ![t] =
                      [@ EXCEPT !.elapsed_avg = (@ + st.heap[resp].elapsed_avg) \div 2]],
          acc |-> st.acc]
    ELSE [heap |-> st.heap, acc |-> Append(st.acc, resp)]

\* deduplicate_merge_rpc(acc, resp). st.heap holds the objects, st.acc the list of
\* identities; acc[-1] is the object appended earlier, which is updated in place.
deduplicate_merge_rpc(st, resp) ==
    LET n == Len(st.acc) IN
    IF n > 0 /\ st.heap[st.acc[n]].block_number = st.heap[resp].block_number
    THEN LET t == st.acc[n] IN
         [heap |-> [st.heap EXCEPT ![t] =
                      [@ EXCEPT !.elapsed_avg = (@ + st.heap[resp].elapsed_avg) \div 2,
                                !.elapsed_low = Min2(@, st.heap[resp].elapsed_low),
                                !.elapsed_high = Max2(@, st.heap[resp].elapsed_high)]],
          acc |-> st.acc]
    ELSE [heap |-> st.heap, acc |-> Append(st.acc, resp)]

\* functools.reduce(deduplicate_merge_rpc, l, [])
RECURSIVE Reduce(_, _)
Reduce(st, l) ==
    IF l = <<>> THEN st
    ELSE Reduce(deduplicate_merge_rpc(st, Head(l)), Tail(l))

apply_merge_rpc(heap, l) == Reduce([heap |-> heap, acc |-> <<>>], l)

\* The objects a list of identities refers to, as values.
Deref(heap, l) == [i \in 1..Len(l) |-> heap[l[i]]]

Identities(l) == [i \in 1..Len(l) |-> i]

\* apply_merge_rpc(apply_sort(l)) on a list of fresh objects with the values l.
Merged(l) ==
    LET st == apply_merge_rpc(l, apply_sort(l, Identities(l)))
    IN  Deref(st.heap, st.acc)

Shuffles(n) == {p \in [1..n -> 1..n] : \A i, j \in 1..n : p[i] = p[j] => i = j}

\* -------------------------------------------------------------------------
\* Chain state read by the generators
\* -------------------------------------------------------------------------

\* The lookback window of the generators. The source sets 2_000; the window
\* arithmetic is the same for every positive range, and the model scales it down.
GENERATE_RANGE == 2

\* Highest block number of the chain.
MaxHeight == 3

NodeName == {"madara", "juno"}

\* What the generators read of a block: its first transaction ("none" when the
\* block has no transaction, "v0" a version-0 transaction, which on these chains
\* is an L1 handler, "reverted" a reverted transaction of a later version, "ok" a
\* successful one of a later version), the number of storage
\* diffs of its state update, the number of events of its first receipt, and
\* whether starknet_py fails to deserialize its receipts.
BlockStates ==
    { [txs |-> "none",     storage_diffs |-> 0, events |-> 0, receipts_invalid |-> FALSE],
      [txs |-> "v0",       storage_diffs |-> 1, events |-> 0, receipts_invalid |-> FALSE],
      [txs |-> "reverted", storage_diffs |-> 2, events |-> 1, receipts_invalid |-> FALSE],
      [txs |-> "ok",       storage_diffs |-> 2, events |-> 1, receipts_invalid |-> FALSE],
      [txs |-> "ok",       storage_diffs |-> 0, events |-> 1, receipts_invalid |-> TRUE] }

\* Version strings, as lists of character codes ('.' is 46, '0' is 48).
Str_0_13_0 == <<48, 46, 49, 51, 46, 48>>
Str_0_13_2 == <<48, 46, 49, 51, 46, 50>>
StarknetVersion_V0_13_1_1 == <<48, 46, 49, 51, 46, 49, 46, 49>>

ChainVersions == {Str_0_13_0, Str_0_13_2}

Block(b) == chain[b + 1]

Targets(l) == {l[i] : i \in 1..Len(l)}

InitChain ==
    /\ urls \in {<<"madara">>, <<"madara", "juno">>}
    /\ chain \in UNION {[1..(k + 1) -> BlockStates] : k \in 0..MaxHeight}
    /\ heights \in [Targets(urls) -> 0..(Len(chain) - 1)]
    /\ \E n \in Targets(urls) : heights[n] = Len(chain) - 1
    /\ starknet_version \in ChainVersions

\* A node catches up with the chain by one block.
Sync(n) ==
    /\ heights[n] < Len(chain) - 1
    /\ heights' = [heights EXCEPT ![n] = @ + 1]
    /\ UNCHANGED <<urls, chain, starknet_version>>

\* -------------------------------------------------------------------------
\* Input generators: app/benchmarks/generators.py
\* -------------------------------------------------------------------------

\* Python's str < str: by character, a proper prefix first.
RECURSIVE StrLess(_, _)
StrLess(a, b) ==
    IF b = <<>> THEN FALSE
    ELSE IF a = <<>> THEN TRUE
    ELSE IF a[1] # b[1] THEN a[1] < b[1]
    ELSE StrLess(Tail(a), Tail(b))

\* ensure_meet_version_requirements(method, v, v_min): TRUE when it raises.
ensure_meet_version_requirements(v, v_min) == StrLess(v, v_min)

RECURSIVE MinOver(_, _)
MinOver(f, l) ==
    IF Len(l) = 1 THEN f[l[1]]
    ELSE Min2(f[l[1]], MinOver(f, Tail(l)))

latest_common_block_number == MinOver(heights, urls)

\* random.randrange(a, b): the values it can return; none when the range is empty,
\* and then it raises ValueError.
randrange(a, b) == a..(b - 1)

\* The outcome of a next(): the input it yields or the error it raises, with the
\* common height it read, the block randrange returned (-1: it returned none), the
\* number of blocks the backward scan loop asked the node for and the number of
\* times the block number was decremented.
Yield(g, h, input) ==
    [kind |-> "yield", gen |-> g, error |-> "", common_height |-> h, chosen |-> -1,
     scanned |-> 0, decrements |-> 0, input |-> input]
Raise(g, h, e) ==
    [kind |-> "raise", gen |-> g, error |-> e, common_height |-> h, chosen |-> -1,
     scanned |-> 0, decrements |-> 0, input |-> <<>>]
Chose(b, outcome) == [outcome EXCEPT !.chosen = b]
Scanned(outcome) == [outcome EXCEPT !.scanned = @ + 1]
Decremented(n, outcome) == [outcome EXCEPT !.decrements = @ + n]

gen_param_empty == {Yield("gen_param_empty", 0, [empty |-> TRUE])}

gen_param_block_number ==
    LET h == latest_common_block_number
        g == "gen_param_block_number"
    IN  IF randrange(Max2(h - GENERATE_RANGE, 0), h) = {}
        THEN {Raise(g, h, "ValueError")}
        ELSE {Chose(b, Yield(g, h, [block_number |-> b])) :
                 b \in randrange(Max2(h - GENERATE_RANGE, 0), h)}

\* The scan loop of gen_param_tx_hash, entered at a block without transactions.
RECURSIVE scan_tx_hash(_, _, _)
scan_tx_hash(h, block_number, block_min) ==
    LET g == "gen_param_tx_hash" IN
    Decremented(1,
    IF block_number - 1 < block_min THEN Raise(g, h, "ErrorNoInputFound")
    ELSE Scanned(IF Block(block_number - 1).txs = "none"
                 THEN scan_tx_hash(h, block_number - 1, block_min)
                 ELSE Yield(g, h, [tx_hash |-> block_number - 1])))

gen_param_tx_hash ==
    LET h == latest_common_block_number
        g == "gen_param_tx_hash"
        block_min == Max2(h - GENERATE_RANGE, 0)
    IN  IF randrange(block_min, h) = {}
        THEN {Raise(g, h, "ValueError")}
        ELSE {Chose(b, IF Block(b).txs = "none"
                       THEN scan_tx_hash(h, b, block_min)
                       ELSE Yield(g, h, [tx_hash |-> b])) : b \in randrange(block_min, h)}

\* The scan loop of gen_starknet_estimateFee: the status of txs[0] is read of every
\* scanned block, also of one without transactions.
RECURSIVE scan_estimateFee(_, _, _)
scan_estimateFee(h, block_number, block_min) ==
    LET g == "gen_starknet_estimateFee" IN
    Decremented(1,
    IF block_number - 1 < block_min THEN Raise(g, h, "ErrorNoInputFound")
    ELSE Scanned(
         IF Block(block_number - 1).txs = "none" THEN Raise(g, h, "IndexError")
         ELSE IF Block(block_number - 1).txs \in {"v0", "reverted"}
         THEN scan_estimateFee(h, block_number - 1, block_min)
         ELSE Yield(g, h, [tx |-> block_number - 1, block_number |-> block_number - 1 - 1])))

\* gen_starknet_estimateFee with the version of the floor block checked after the
\* random block is chosen.
gen_starknet_estimateFee_checks_late ==
    LET h == latest_common_block_number
        g == "gen_starknet_estimateFee"
        block_min == Max2(0, h - GENERATE_RANGE)
    IN  IF randrange(block_min, h) = {}
        THEN {Raise(g, h, "ValueError")}
        ELSE {Chose(b, IF ensure_meet_version_requirements(starknet_version,
                                                           StarknetVersion_V0_13_1_1)
                       THEN Raise(g, h, "ErrorStarknetVersion")
                       ELSE IF Block(b).txs \in {"none", "v0", "reverted"}
                       THEN scan_estimateFee(h, b, block_min)
                       ELSE Yield(g, h, [tx |-> b, block_number |-> b - 1])) :
                 b \in randrange(block_min, h)}

gen_starknet_estimateFee ==
    LET h == latest_common_block_number
        g == "gen_starknet_estimateFee"
        block_min == Max2(0, h - GENERATE_RANGE)
    IN  IF ensure_meet_version_requirements(starknet_version, StarknetVersion_V0_13_1_1)
        THEN {Raise(g, h, "ErrorStarknetVersion")}
        ELSE IF randrange(block_min, h) = {}
        THEN {Raise(g, h, "ValueError")}
        ELSE {Chose(b, IF Block(b).txs \in {"none", "v0", "reverted"}
                       THEN scan_estimateFee(h, b, block_min)
                       ELSE Yield(g, h, [tx |-> b, block_number |-> b - 1])) :
                 b \in randrange(block_min, h)}

\* The scan loop of gen_starknet_estimate_message_fee: it looks for a block whose
\* first transaction is an L1 handler that did not revert, and reads the status
\* of txs[0] of every scanned block.
RECURSIVE scan_estimate_message_fee(_, _, _)
scan_estimate_message_fee(h, block_number, block_min) ==
    LET g == "gen_starknet_estimate_message_fee" IN
    Decremented(1,
    IF block_number - 1 < block_min THEN Raise(g, h, "ErrorNoInputFound")
    ELSE Scanned(
         IF Block(block_number - 1).txs = "none" THEN Raise(g, h, "IndexError")
         ELSE IF Block(block_number - 1).txs # "v0"
         THEN scan_estimate_message_fee(h, block_number - 1, block_min)
         ELSE Yield(g, h, [body |-> block_number - 1, block_number |-> block_number - 1])))

gen_starknet_estimate_message_fee ==
    LET h == latest_common_block_number
        g == "gen_starknet_estimate_message_fee"
        block_min == Max2(0, h - GENERATE_RANGE)
    IN  IF ensure_meet_version_requirements(starknet_version, StarknetVersion_V0_13_1_1)
        THEN {Raise(g, h, "ErrorStarknetVersion")}
        ELSE IF randrange(block_min, h) = {}
        THEN {Raise(g, h, "ValueError")}
        ELSE {Chose(b, IF Block(b).txs # "v0"
                       THEN scan_estimate_message_fee(h, b, block_min)
                       ELSE Yield(g, h, [body |-> b, block_number |-> b])) :
                 b \in randrange(block_min, h)}

\* The scan loop of gen_starknet_simulateTransactions: it looks for a block whose
\* first transaction is not of version 0, reverted or not.
RECURSIVE scan_simulateTransactions(_, _, _)
scan_simulateTransactions(h, block_number, block_min) ==
    LET g == "gen_starknet_simulateTransactions" IN
    Decremented(1,
    IF block_number - 1 < block_min THEN Raise(g, h, "ErrorNoInputFound")
    ELSE Scanned(
         IF Block(block_number - 1).txs \in {"none", "v0"}
         THEN scan_simulateTransactions(h, block_number - 1, block_min)
         ELSE Yield(g, h, [body |-> block_number - 1, block_number |-> block_number - 1])))

gen_starknet_simulateTransactions ==
    LET h == latest_common_block_number
        g == "gen_starknet_simulateTransactions"
        block_min == Max2(0, h - GENERATE_RANGE)
    IN  IF ensure_meet_version_requirements(starknet_version, StarknetVersion_V0_13_1_1)
        THEN {Raise(g, h, "ErrorStarknetVersion")}
        ELSE IF randrange(block_min, h) = {}
        THEN {Raise(g, h, "ValueError")}
        ELSE {Chose(b, IF Block(b).txs \in {"none", "v0"}
                       THEN scan_simulateTransactions(h, b, block_min)
                       ELSE Yield(g, h, [body |-> b, block_number |-> b])) :
                 b \in randrange(block_min, h)}

RECURSIVE scan_getStorageAt(_, _, _)
scan_getStorageAt(h, block_number, block_min) ==
    LET g == "gen_starknet_getStorageAt" IN
    Decremented(1,
    IF block_number - 1 < block_min THEN Raise(g, h, "ErrorNoInputFound")
    ELSE Scanned(IF Block(block_number - 1).storage_diffs < 2
                 THEN scan_getStorageAt(h, block_number - 1, block_min)
                 ELSE Yield(g, h, [key |-> block_number - 1,
                                   block_number |-> block_number - 1])))

gen_starknet_getStorageAt ==
    LET h == latest_common_block_number
        g == "gen_starknet_getStorageAt"
        block_min == Max2(h - GENERATE_RANGE, 0)
    IN  IF randrange(block_min, h) = {}
        THEN {Raise(g, h, "ValueError")}
        ELSE {Chose(b, IF Block(b).storage_diffs < 2
                       THEN scan_getStorageAt(h, b, block_min)
                       ELSE Yield(g, h, [key |-> b, block_number |-> b])) :
                 b \in randrange(block_min, h)}

\* The first loop of gen_starknet_getEvents: the block number is decremented for as
\* long as the receipts do not deserialize; no floor is checked, and a negative
\* block number is refused by the node (ClientError). The result is the block
\* number the loop ends on, or -1.
RECURSIVE receipts_getEvents(_)
receipts_getEvents(block_number) ==
    IF block_number < 0 THEN -1
    ELSE IF Block(block_number).receipts_invalid
         THEN receipts_getEvents(block_number - 1)
         ELSE block_number

\* After it: the second loop's condition reads transactions[0] when the block has
\* no transaction, and is false otherwise, so its body never runs.
events_getEvents(h, block_number) ==
    LET g == "gen_starknet_getEvents" IN
    IF block_number < 0 THEN Raise(g, h, "ClientError")
    ELSE IF Block(block_number).txs = "none" THEN Raise(g, h, "IndexError")
    ELSE IF Block(block_number).events = 0 THEN Raise(g, h, "IndexError")
    ELSE Yield(g, h, [address |-> block_number,
                      from_block_number |-> Max2(0, block_number - GENERATE_RANGE)])

gen_starknet_getEvents ==
    LET h == latest_common_block_number
        g == "gen_starknet_getEvents"
        block_min == Max2(0, h - GENERATE_RANGE)
    IN  IF randrange(block_min, h) = {}
        THEN {Raise(g, h, "ValueError")}
        ELSE {Chose(b, Decremented(b - receipts_getEvents(b),
                                   events_getEvents(h, receipts_getEvents(b)))) :
                 b \in randrange(block_min, h)}

\* -------------------------------------------------------------------------
\* SpecGen: next() on a generator, for every chain
\* -------------------------------------------------------------------------

InitGen ==
    /\ IdleMerge
    /\ IdleStore
    /\ IdleBench
    /\ InitChain
    /\ gen_out = [kind |-> "idle"]

\* A generator can be pulled again after it yielded; after it raised it is finished.
CanPull(g) ==
    \/ gen_out.kind = "idle"
    \/ gen_out.kind = "yield" /\ gen_out.gen = g

Next_gen_param_block_number ==
    /\ CanPull("gen_param_block_number")
    /\ gen_out' \in gen_param_block_number
    /\ UNCHANGED <<store_vars, merge_vars, chain_vars, bench_vars>>

Next_gen_param_tx_hash ==
    /\ CanPull("gen_param_tx_hash")
    /\ gen_out' \in gen_param_tx_hash
    /\ UNCHANGED <<store_vars, merge_vars, chain_vars, bench_vars>>

Next_gen_starknet_estimateFee ==
    /\ CanPull("gen_starknet_estimateFee")
    /\ gen_out' \in gen_starknet_estimateFee
    /\ UNCHANGED <<store_vars, merge_vars, chain_vars, bench_vars>>

Next_gen_starknet_estimate_message_fee ==
    /\ CanPull("gen_starknet_estimate_message_fee")
    /\ gen_out' \in gen_starknet_estimate_message_fee
    /\ UNCHANGED <<store_vars, merge_vars, chain_vars, bench_vars>>

Next_gen_starknet_simulateTransactions ==
    /\ CanPull("gen_starknet_simulateTransactions")
    /\ gen_out' \in gen_starknet_simulateTransactions
    /\ UNCHANGED <<store_vars, merge_vars, chain_vars, bench_vars>>

Next_gen_starknet_getStorageAt ==
    /\ CanPull("gen_starknet_getStorageAt")
    /\ gen_out' \in gen_starknet_getStorageAt
    /\ UNCHANGED <<store_vars, merge_vars, chain_vars, bench_vars>>

Next_gen_starknet_getEvents ==
    /\ CanPull("gen_starknet_getEvents")
    /\ gen_out' \in gen_starknet_getEvents
    /\ UNCHANGED <<store_vars, merge_vars, chain_vars, bench_vars>>

SyncGen ==
    /\ \E n \in Targets(urls) : Sync(n)
    /\ UNCHANGED <<store_vars, merge_vars, gen_out, bench_vars>>

NextGen ==
    \/ Next_gen_param_block_number
    \/ Next_gen_param_tx_hash
    \/ Next_gen_starknet_estimateFee
    \/ Next_gen_starknet_estimate_message_fee
    \/ Next_gen_starknet_simulateTransactions
    \/ Next_gen_starknet_getStorageAt
    \/ Next_gen_starknet_getEvents
    \/ SyncGen

SpecGen == InitGen /\ [][NextGen]_vars

BackwardScanGenerators ==
    {"gen_param_tx_hash", "gen_starknet_estimateFee", "gen_starknet_getStorageAt",
     "gen_starknet_getEvents"}

\* C7: generator floor invariant. For every backward-scan generator and every chain
\* state, a block_number placed in a yielded input is at least
\* max(0, common_height - GENERATE_RANGE), common_height being the minimum block
\* number the targets reported when the input was generated.
C7_GeneratorFloor ==
    (/\ gen_out.kind = "yield"
     /\ gen_out.gen \in BackwardScanGenerators
     /\ "block_number" \in DOMAIN gen_out.input)
        => gen_out.input.block_number >= Max2(0, gen_out.common_height - GENERATE_RANGE)

\* The predicate a generator scans for, on block b.
Qualifies(g, b) ==
    CASE g = "gen_param_tx_hash" -> Block(b).txs # "none"
      [] g = "gen_starknet_estimateFee" -> Block(b).txs = "ok"
      [] g = "gen_starknet_getStorageAt" -> Block(b).storage_diffs >= 2
      [] g = "gen_starknet_getEvents" -> Block(b).txs # "none" /\ Block(b).events > 0

\* C8: for every backward-scan generator, if no block from the floor
\* max(0, common_height - GENERATE_RANGE) up to the chosen block satisfies the
\* generator's predicate (also when the window is empty because common_height is 0,
\* or when the scanned blocks hold no transaction), next() fails with
\* ErrorNoInputFound and with no other kind of error.
C8_OnlyNoInputFound ==
    (/\ gen_out.kind \in {"yield", "raise"}
     /\ gen_out.gen \in BackwardScanGenerators
     /\ gen_out.error # "ErrorStarknetVersion"
     /\ \A b \in Max2(0, gen_out.common_height - GENERATE_RANGE)..gen_out.chosen :
           ~Qualifies(gen_out.gen, b))
        => (gen_out.kind = "raise" /\ gen_out.error = "ErrorNoInputFound")

\* C27: a next() that chose a block ends, with an input or an error, after at
\* most (chosen block - floor + 1) decrements of the block number.
C27_ScanReachesFloorCheck ==
    (gen_out.kind \in {"yield", "raise"} /\ gen_out.chosen # -1) =>
        gen_out.decrements <=
            gen_out.chosen - Max2(0, gen_out.common_height - GENERATE_RANGE) + 1

\* The generators that check the protocol version of the floor block.
VersionGatedGenerators ==
    {"gen_starknet_estimateFee", "gen_starknet_estimate_message_fee",
     "gen_starknet_simulateTransactions"}

\* The versions of the modelled chains that are below 0.13.1.1.
BelowMinimum == {Str_0_13_0}

InitMerge ==
    /\ IdleChain
    /\ IdleStore
    /\ IdleBench
    /\ xs \in SeqsUpTo(Summaries, MaxLen)
    /\ objs = xs
    /\ acc = <<>>
    /\ out = <<>>
    /\ out_perm = <<>>
    /\ out_twice = <<>>
    /\ mstep = "input"

\* resps -> apply_merge_rpc(apply_sort(resps))
Merge ==
    /\ mstep = "input"
    /\ LET st == apply_merge_rpc(objs, apply_sort(objs, Identities(objs)))
       IN  /\ objs' = st.heap
           /\ acc' = st.acc
           /\ out' = Deref(st.heap, st.acc)
    /\ mstep' = "merged"
    /\ UNCHANGED <<store_vars, xs, out_perm, out_twice, chain_vars, gen_out, bench_vars>>

\* The same call on a permutation of the same values.
MergePermuted ==
    /\ mstep = "merged"
    /\ \E p \in Shuffles(Len(xs)) :
          out_perm' = Merged([i \in 1..Len(xs) |-> xs[p[i]]])
    /\ mstep' = "permuted"
    /\ UNCHANGED <<store_vars, xs, objs, acc, out, out_twice, chain_vars, gen_out, bench_vars>>

\* The same call on the list the first call returned.
MergeAgain ==
    /\ mstep = "merged"
    /\ LET st == apply_merge_rpc(objs, apply_sort(objs, acc))
       IN  /\ objs' = st.heap
           /\ out_twice' = Deref(st.heap, st.acc)
    /\ mstep' = "twice"
    /\ UNCHANGED <<store_vars, xs, acc, out, out_perm, chain_vars, gen_out, bench_vars>>

NextMerge == Merge \/ MergePermuted \/ MergeAgain

SpecMerge == InitMerge /\ [][NextMerge]_vars

\* C3: merge order-independence. For any list xs of summaries and any permutation p
\* of it, apply_merge_rpc(apply_sort(p)) equals apply_merge_rpc(apply_sort(xs)) field
\* by field, also when three or more entries share one block number.
C3_MergeOrderIndependence ==
    mstep = "permuted" => out_perm = out

\* C4: merge idempotence. Merging the output of a merge (sort by block number, then
\* the left fold with deduplicate_merge_rpc) yields the same sequence with the same
\* field values as the first merge.
C4_MergeIdempotence ==
    mstep = "twice" => out_twice = out

\* A merge of a merge whose first run combined colliding entries and kept two blocks.
C4_Witness ==
    /\ mstep = "twice"
    /\ Len(out) = 2
    /\ Len(xs) = 3
    /\ out[1].elapsed_avg # xs[1].elapsed_avg

\* The block numbers of a list of summaries.
BlocksOf(l) == {l[i].block_number : i \in 1..Len(l)}

\* The summaries of a list at one block number.
AtBlock(l, b) == {i \in 1..Len(l) : l[i].block_number = b}

\* C24: when every summary handed to the merge has elapsed_low <= elapsed_avg
\* <= elapsed_high, so has every entry of apply_merge_rpc(apply_sort(xs)).
C24_MergePreservesInvariant ==
    (/\ mstep = "merged"
     /\ \A i \in 1..Len(xs) : /\ xs[i].elapsed_low <= xs[i].elapsed_avg
                              /\ xs[i].elapsed_avg <= xs[i].elapsed_high)
        => \A i \in 1..Len(out) : /\ out[i].elapsed_low <= out[i].elapsed_avg
                                  /\ out[i].elapsed_avg <= out[i].elapsed_high

\* Three colliding summaries were merged into one entry whose average is that
\* of none of them.
C24_Witness ==
    /\ mstep = "merged"
    /\ Len(xs) = 3
    /\ Len(out) = 1
    /\ \A i \in 1..3 : xs[i].elapsed_avg # out[1].elapsed_avg

\* C25: the block numbers of apply_merge_rpc(apply_sort(xs)) are those of xs,
\* and the elapsed_low and elapsed_high of an entry are the lowest
\* elapsed_low and the highest elapsed_high of the summaries of xs at its block.
C25_MergeKeepsBlocks ==
    mstep = "merged" =>
        /\ BlocksOf(out) = BlocksOf(xs)
        /\ \A i \in 1..Len(out) :
              LET at == AtBlock(xs, out[i].block_number)
              IN  /\ \A j \in at : out[i].elapsed_low <= xs[j].elapsed_low
                  /\ \E j \in at : out[i].elapsed_low = xs[j].elapsed_low
                  /\ \A j \in at : out[i].elapsed_high >= xs[j].elapsed_high
                  /\ \E j \in at : out[i].elapsed_high = xs[j].elapsed_high

\* A merge of two blocks, given out of order, where the lowest low and the
\* highest high of one block come from different summaries.
C25_Witness ==
    /\ mstep = "merged"
    /\ Len(xs) = 3
    /\ Len(out) = 2
    /\ xs[1].block_number > xs[2].block_number
    /\ \E i, j \in 1..3 : /\ i # j
                          /\ xs[i].block_number = xs[j].block_number
                          /\ xs[i].elapsed_low < xs[j].elapsed_low
                          /\ xs[i].elapsed_high < xs[j].elapsed_high

\* C26: the merge leaves the summaries it is given as they were: after
\* apply_merge_rpc(apply_sort(xs)) every object of xs has the field values it
\* had before.
C26_MergeLeavesInputUnchanged ==
    mstep = "merged" => objs = xs

\* -------------------------------------------------------------------------
\* SpecFold: the steps of functools.reduce(deduplicate_merge_rpc, l, [])
\* -------------------------------------------------------------------------

InitFold ==
    /\ IdleChain
    /\ IdleStore
    /\ IdleBench
    /\ xs = <<>>
    /\ objs = <<>>
    /\ acc = <<>>
    /\ out = <<>>
    /\ out_perm = <<>>
    /\ out_twice = <<>>
    /\ mstep = "fold"

\* One step of the reduce: the next summary of the list is folded into acc.
FoldStep ==
    /\ mstep = "fold"
    /\ Len(objs) < MaxLen
    /\ \E r \in Summaries :
          LET st == deduplicate_merge_rpc([heap |-> Append(objs, r), acc |-> acc],
                                          Len(objs) + 1)
          IN  /\ objs' = st.heap
              /\ acc' = st.acc
              /\ xs' = Append(xs, r)
    /\ UNCHANGED <<store_vars, out, out_perm, out_twice, mstep, chain_vars, gen_out, bench_vars>>

NextFold == FoldStep

SpecFold == InitFold /\ [][NextFold]_vars

\* The example of the merge: two summaries at block 50.
ExampleCollision ==
    Merged(<<NodeResponseBenchRpc("madara", 50, 100, 80, 120),
             NodeResponseBenchRpc("madara", 50, 200, 150, 250)>>)

\* C5: merge collision combination. When the running tail and the incoming summary
\* have the same block number, the tail becomes elapsed_avg = (avg1 + avg2) // 2,
\* elapsed_low = min(low1, low2), elapsed_high = max(high1, high2), and nothing is
\* appended ((100,80,120) and (200,150,250) at block 50 give (150,80,250)); when the
\* block numbers differ the incoming summary is appended unchanged as the new tail.
C5_MergeCollisionCombination ==
    [][ Len(objs') = Len(objs) + 1 =>
          LET n == Len(acc)
              r == xs'[Len(xs')]
          IN  /\ ExampleCollision = <<NodeResponseBenchRpc("madara", 50, 150, 80, 250)>>
              /\ IF n > 0 /\ objs[acc[n]].block_number = r.block_number
                 THEN /\ acc' = acc
                      /\ objs'[acc[n]] =
                           NodeResponseBenchRpc(
                               objs[acc[n]].node,
                               objs[acc[n]].block_number,
                               (objs[acc[n]].elapsed_avg + r.elapsed_avg) \div 2,
                               Min2(objs[acc[n]].elapsed_low, r.elapsed_low),
                               Max2(objs[acc[n]].elapsed_high, r.elapsed_high))
                 ELSE /\ acc' = Append(acc, Len(objs'))
                      /\ objs'[Len(objs')] = r
                      /\ \A i \in 1..Len(objs) : objs'[i] = objs[i]
      ]_vars

\* A fold that has combined a colliding summary into the tail and appended another.
C5_Witness ==
    /\ mstep = "fold"
    /\ Len(objs) = 3
    /\ Len(acc) = 2
    /\ objs[acc[1]] # xs[acc[1]]


\* -------------------------------------------------------------------------
\* SpecBench: one session of benchmarks.benchmark_rpc
\* (app/benchmarks/__init__.py), on a clock of one tick per millisecond
\* -------------------------------------------------------------------------

\* Most samples of a session.
MaxSamples == 2

\* The times a call can take, in ticks.
CallTicks == {1, 2}

\* The intervals between two samples of a session, in ticks.
TestInterval == {0, 1}

\* The heights the targets of a session start at.
BenchHeights == {0, 2}

\* The methods a session is run on here.
RpcCallBench ==
    {"starknet_blockNumber", "starknet_estimateFee", "starknet_getBlockWithTxs",
     "starknet_getTransactionByHash"}

\* MAPPINGS_RPC[rpc_call].input_generator: what a next() on it can give.
MAPPINGS_RPC(rpc_call) ==
    CASE rpc_call = "starknet_blockNumber" -> gen_param_empty
      [] rpc_call = "starknet_estimateFee" -> gen_starknet_estimateFee
      [] rpc_call = "starknet_getBlockWithTxs" -> gen_param_block_number
      [] rpc_call = "starknet_getTransactionByHash" -> gen_param_tx_hash

\* The chains a session is run on: three blocks, all with or all without
\* transactions.
BenchChains ==
    { [b \in 1..3 |-> [txs |-> "ok", storage_diffs |-> 2, events |-> 1,
                       receipts_invalid |-> FALSE]],
      [b \in 1..3 |-> [txs |-> "none", storage_diffs |-> 0, events |-> 0,
                       receipts_invalid |-> FALSE]] }

RECURSIVE Sum(_)
Sum(s) == IF s = <<>> THEN 0 ELSE Head(s) + Sum(Tail(s))

SeqMin(s) == CHOOSE x \in Targets(s) : \A y \in Targets(s) : x <= y
SeqMax(s) == CHOOSE x \in Targets(s) : \A y \in Targets(s) : x >= y

\* The timed calls of a session with the inputs rotated from one target to the next.
build_futures_bench_per_target(ins) ==
    [k \in 1..Len(urls) |->
        [j \in 1..Len(ins) |->
            [node |-> urls[k], index |-> j - 1, input |-> ins[((j + k) % Len(ins)) + 1],
             delay |-> (j - 1) * session.interval,
             st |-> "built", when |-> -1, elapsed |-> -1, error |-> ""]]]

\* The timed calls of a session with every sample given the first input.
build_futures_bench_first_input(ins) ==
    [k \in 1..Len(urls) |->
        [j \in 1..Len(ins) |->
            [node |-> urls[k], index |-> j - 1, input |-> ins[1],
             delay |-> (j - 1) * session.interval,
             st |-> "built", when |-> -1, elapsed |-> -1, error |-> ""]]]

\* The coroutines scheduled as tasks as soon as they are built.
build_futures_bench_eager(ins) ==
    [k \in 1..Len(urls) |->
        [j \in 1..Len(ins) |->
            [node |-> urls[k], index |-> j - 1, input |-> ins[j],
             delay |-> (j - 1) * session.interval,
             st |-> IF (j - 1) * session.interval = 0 THEN "calling" ELSE "sleeping",
             when |-> IF (j - 1) * session.interval = 0 THEN 0 ELSE -1,
             elapsed |-> -1, error |-> ""]]]

\* futures_bench: per target, per input i, the runner call on that input wrapped
\* in a sleep of i * interval. The coroutines are built, not started.
build_futures_bench(ins) ==
    [k \in 1..Len(urls) |->
        [j \in 1..Len(ins) |->
            [node |-> urls[k], index |-> j - 1, input |-> ins[j],
             delay |-> (j - 1) * session.interval,
             st |-> "built", when |-> -1, elapsed |-> -1, error |-> ""]]]

\* with_sleep at instant t, for a coroutine whose gather started at t0: it
\* sleeps for its delay, then makes the call.
with_sleep(f, t0, t) ==
    IF f.st \in {"built", "sleeping"}
    THEN IF t0 + f.delay <= t
         THEN [f EXCEPT !.st = "calling", !.when = t]
         ELSE [f EXCEPT !.st = "sleeping"]
    ELSE f

\* asyncio.gather on the coroutines of target k at instant t.
gather(fb, k, t0, t) ==
    [fb EXCEPT ![k] = [j \in 1..Len(fb[k]) |-> with_sleep(fb[k][j], t0, t)]]

\* The runner calls made at instant t on target k.
Calls(fb, k, t) ==
    LET made == SelectSeq(fb[k], LAMBDA f : f.st = "calling" /\ f.when = t)
    IN  [n \in 1..Len(made) |->
            [node |-> made[n].node, index |-> made[n].index, input |-> made[n].input]]

\* The average with the mean rounded up.
elapsed_avg_round_up(all) == (Sum(all) + Len(all) - 1) \div Len(all)

elapsed_avg(all) == Sum(all) \div Len(all)

\* What benchmark_rpc would return if it read the block numbers again after sampling.
ResponseModelBenchRpc_reread(fb) ==
    [nodes |->
        [k \in 1..Len(fb) |->
            LET resps == fb[k] IN
            [node |-> resps[1].node,
             method |-> session.rpc_call,
             when |-> SeqMin([j \in 1..Len(resps) |-> resps[j].when]),
             block_number |-> heights[urls[k]],
             syncing |-> (sync_status[k] = "True"),
             elapsed_avg |-> elapsed_avg([j \in 1..Len(resps) |-> resps[j].elapsed])]],
     inputs |-> inputs]

\* What benchmark_rpc returns from the results of the calls.
ResponseModelBenchRpc(fb) ==
    [nodes |->
        [k \in 1..Len(fb) |->
            LET resps == fb[k] IN
            [node |-> resps[1].node,
             method |-> session.rpc_call,
             when |-> SeqMin([j \in 1..Len(resps) |-> resps[j].when]),
             block_number |-> block_nos[k],
             syncing |-> (sync_status[k] = "True"),
             elapsed_avg |-> elapsed_avg([j \in 1..Len(resps) |-> resps[j].elapsed])]],
     inputs |-> inputs]


\* The conversions between the names of the models and the indices of the store.
NodeDB_from_model_bench(model) ==
    CASE model = "madara" -> 0
      [] model = "juno" -> 1

NodeName_from_scalar_idx(idx) ==
    CASE idx = 0 -> "madara"
      [] idx = 1 -> "juno"
      [] OTHER -> "invalid"

RpcCallDB_from_model_bench(model) ==
    CASE model = "starknet_blockNumber" -> 1
      [] model = "starknet_estimateFee" -> 3
      [] model = "starknet_getBlockWithTxs" -> 8
      [] model = "starknet_getTransactionByHash" -> 17

RpcCallBench_from_scalar_idx(idx) ==
    CASE idx = 1 -> "starknet_blockNumber"
      [] idx = 3 -> "starknet_estimateFee"
      [] idx = 8 -> "starknet_getBlockWithTxs"
      [] idx = 17 -> "starknet_getTransactionByHash"
      [] OTHER -> "invalid"

SystemMetricDB_from_model_bench(model) ==
    CASE model = "cpu_system" -> 0
      [] model = "memory" -> 1

SystemMetric_from_scalar_idx(idx) ==
    CASE idx = 0 -> "cpu_system"
      [] idx = 1 -> "memory"
      [] OTHER -> "invalid"

\* The variables of a session but pc.
session_vars == <<session, inputs, block_nos, sync_status, futures_bench, cur, launched,
                  issued, now, result>>

InitBench ==
    /\ IdleMerge
    /\ BlockDB = {}
    /\ BenchmarkRpcDB = <<>>
    /\ BenchmarkSystemDB = <<>>
    /\ cycles = 0
    /\ response = <<>>
    /\ routine = [state |-> "running", logged |-> <<>>]
    /\ urls \in {<<"madara">>, <<"madara", "juno">>}
    /\ chain \in BenchChains
    /\ heights \in [Targets(urls) -> BenchHeights]
    /\ gen_out = [kind |-> "idle"]
    /\ session \in [rpc_call : RpcCallBench, samples : 1..MaxSamples, interval : TestInterval]
    /\ starknet_version \in IF session.rpc_call = "starknet_estimateFee"
                           THEN ChainVersions ELSE {Str_0_13_2}
    /\ pc = "gen"
    /\ inputs = <<>>
    /\ block_nos = [k \in 1..Len(urls) |-> -1]
    /\ sync_status = [k \in 1..Len(urls) |-> "pending"]
    /\ futures_bench = <<>>
    /\ cur = 0
    /\ launched = [k \in 1..Len(urls) |-> -1]
    /\ issued = <<>>
    /\ now = 0
    /\ result = <<>>

\* inputs = [await anext(generator) for _ in range(samples)]: one input is
\* drawn; after the last one the coroutines of the session are built.
Anext ==
    /\ pc = "gen"
    /\ \E o \in MAPPINGS_RPC(session.rpc_call) :
        /\ gen_out' = o
        /\ IF o.kind = "yield"
           THEN /\ inputs' = Append(inputs, o.input)
                /\ IF Len(inputs) + 1 = session.samples
                   THEN /\ pc' = "probe_block"
                        /\ futures_bench' = build_futures_bench(Append(inputs, o.input))
                   ELSE UNCHANGED <<pc, futures_bench>>
                /\ UNCHANGED result
           ELSE /\ pc' = "raised"
                /\ result' = [error |-> o.error]
                /\ UNCHANGED <<inputs, futures_bench>>
    /\ UNCHANGED <<store_vars, merge_vars, chain_vars, session, block_nos, sync_status, cur, launched,
                   issued, now>>

\* await asyncio.gather(*futures_block_no): the probe of target k returns.
ProbeBlockNumber(k) ==
    /\ pc = "probe_block"
    /\ block_nos[k] = -1
    /\ block_nos' = [block_nos EXCEPT ![k] = heights[urls[k]]]
    /\ pc' = IF \A n \in 1..Len(urls) : block_nos'[n] # -1 THEN "probe_sync" ELSE pc
    /\ UNCHANGED <<store_vars, merge_vars, chain_vars, gen_out, session, inputs, sync_status,
                   futures_bench, cur, launched, issued, now, result>>

\* await asyncio.gather(*futures_syncing): the probe of target k returns, a
\* SyncStatus when the node is behind the chain. After the last probe the
\* coroutines of the first target are gathered.
ProbeSyncing(k) ==
    /\ pc = "probe_sync"
    /\ sync_status[k] = "pending"
    /\ sync_status' = [sync_status EXCEPT
                          ![k] = IF heights[urls[k]] < Len(chain) - 1 THEN "True" ELSE "False"]
    /\ IF \A n \in 1..Len(urls) : sync_status'[n] # "pending"
       THEN /\ pc' = "bench"
            /\ cur' = 1
            /\ launched' = [launched EXCEPT ![1] = now]
            /\ futures_bench' = gather(futures_bench, 1, now, now)
            /\ issued' = issued \o Calls(futures_bench', 1, now)
       ELSE UNCHANGED <<pc, cur, launched, futures_bench, issued>>
    /\ UNCHANGED <<store_vars, merge_vars, chain_vars, gen_out, session, inputs, block_nos, now, result>>

\* A probe raises ErrorRpcCall.
ProbeRaises ==
    /\ pc \in {"probe_block", "probe_sync"}
    /\ pc' = "raised"
    /\ result' = [error |-> "ErrorRpcCall"]
    /\ UNCHANGED <<store_vars, merge_vars, chain_vars, gen_out, session, inputs, block_nos, sync_status,
                   futures_bench, cur, launched, issued, now>>

\* A millisecond passes; the coroutines of the gather being awaited whose sleep
\* is over make their call. No call in flight is left to take longer than the
\* longest of CallTicks.
Tick ==
    /\ pc = "bench"
    /\ \A j \in 1..Len(futures_bench[cur]) :
          futures_bench[cur][j].st = "calling" =>
              \E t \in CallTicks : now - futures_bench[cur][j].when < t
    /\ now' = now + 1
    /\ futures_bench' = gather(futures_bench, cur, launched[cur], now + 1)
    /\ issued' = issued \o Calls(futures_bench', cur, now + 1)
    /\ UNCHANGED <<store_vars, merge_vars, chain_vars, gen_out, pc, session, inputs, block_nos,
                   sync_status, cur, launched, result>>

\* The runner call of sample j of the target being awaited returns. When it is
\* the last of its gather, the next target's coroutines are gathered; after the
\* last target the results are reduced and returned.
RunnerReturns(j) ==
    /\ pc = "bench"
    /\ j \in 1..Len(futures_bench[cur])
    /\ futures_bench[cur][j].st = "calling"
    /\ now - futures_bench[cur][j].when \in CallTicks
    /\ LET f == futures_bench[cur][j]
           fb == [futures_bench EXCEPT
                     ![cur][j] = [f EXCEPT !.st = "done", !.elapsed = now - f.when]]
       IN  IF \E n \in 1..Len(fb[cur]) : fb[cur][n].st # "done"
           THEN /\ futures_bench' = fb
                /\ UNCHANGED <<pc, cur, launched, issued, result>>
           ELSE IF cur < Len(urls)
           THEN /\ cur' = cur + 1
                /\ launched' = [launched EXCEPT ![cur + 1] = now]
                /\ futures_bench' = gather(fb, cur + 1, now, now)
                /\ issued' = issued \o Calls(futures_bench', cur + 1, now)
                /\ UNCHANGED <<pc, result>>
           ELSE /\ futures_bench' = fb
                /\ pc' = "done"
                /\ result' = ResponseModelBenchRpc(fb)
                /\ UNCHANGED <<cur, launched, issued>>
    /\ UNCHANGED <<store_vars, merge_vars, chain_vars, gen_out, session, inputs, block_nos, sync_status,
                   now>>

\* The runner call of sample j raises: ErrorRpcCall when the client reports an
\* error, marshmallow's ValidationError when the answer cannot be deserialized.
\* The gather raises the same error.
RunnerRaises(j) ==
    /\ pc = "bench"
    /\ j \in 1..Len(futures_bench[cur])
    /\ futures_bench[cur][j].st = "calling"
    /\ \E e \in {"ErrorRpcCall", "ValidationError"} :
          /\ futures_bench' = [futures_bench EXCEPT ![cur][j] =
                                  [futures_bench[cur][j] EXCEPT !.st = "failed", !.error = e]]
          /\ result' = [error |-> e]
    /\ pc' = "raised"
    /\ UNCHANGED <<store_vars, merge_vars, chain_vars, gen_out, session, inputs, block_nos, sync_status,
                   cur, launched, issued, now>>

\* A node catches up with the chain while the session runs.
SyncBench ==
    /\ pc \in {"gen", "probe_block", "probe_sync", "bench"}
    /\ \E n \in Targets(urls) : Sync(n)
    /\ UNCHANGED <<store_vars, merge_vars, gen_out, bench_vars>>

\* The errors db_bench_method catches by name, and what it logs for each.
SkippedErrors == {"ErrorNoInputFound", "ErrorStarknetVersion", "ErrorRpcCall", "ValidationError"}

LogLine(e) ==
    CASE e = "ErrorNoInputFound" -> "NO INPUT FOUND"
      [] e = "ErrorStarknetVersion" -> "INVALID STARKNET VERSION"
      [] e = "ErrorRpcCall" -> "RPC CALL FAILURE"
      [] e = "ValidationError" -> "VALIDATION ERROR"

\* The highest block of the store with a row of benchmarkrpcdb of the node, 0
\* when there is none: what the handler of the other errors logs.
latest_of_node(node_db) ==
    LET ids == {BenchmarkRpcDB[i].block_id : i \in
                   {n \in 1..Len(BenchmarkRpcDB) : /\ BenchmarkRpcDB[n].node_idx = node_db
                                                   /\ BenchmarkRpcDB[n].block_id \in BlockDB}}
    IN  IF ids = {} THEN 0 ELSE CHOOSE b \in ids : \A c \in ids : c <= b

\* A variant of the handler of the named errors that lets the error through.
db_bench_method_skips_terminating ==
    /\ Len(urls) = 1
    /\ pc = "raised"
    /\ result.error \in SkippedErrors
    /\ pc' = "returned"
    /\ routine' = [routine EXCEPT !.state = "terminated"]
    /\ UNCHANGED <<merge_vars, chain_vars, gen_out, session_vars, BlockDB, BenchmarkRpcDB,
                   BenchmarkSystemDB, cycles, response>>

\* A variant of the handler of the named errors that stores a row for the cycle.
db_bench_method_skips_storing ==
    /\ Len(urls) = 1
    /\ pc = "raised"
    /\ result.error \in SkippedErrors
    /\ pc' = "returned"
    /\ routine' = [routine EXCEPT !.logged = [line |-> LogLine(result.error), node |-> urls[1],
                                              method |-> session.rpc_call]]
    /\ BlockDB' = BlockDB \cup {heights[urls[1]]}
    /\ BenchmarkRpcDB' = Append(BenchmarkRpcDB,
                                [node_idx |-> NodeDB_from_model_bench(urls[1]),
                                 method_idx |-> RpcCallDB_from_model_bench(session.rpc_call),
                                 elapsed_avg |-> 0, elapsed_low |-> 0, elapsed_high |-> 0,
                                 block_id |-> heights[urls[1]]])
    /\ UNCHANGED <<merge_vars, chain_vars, gen_out, session_vars, BenchmarkSystemDB, cycles,
                   response>>

\* db_bench_method, which runs its session on one url: the session raised one
\* of the errors caught by name. The error is logged and the call returns.
db_bench_method_skips ==
    /\ Len(urls) = 1
    /\ pc = "raised"
    /\ result.error \in SkippedErrors
    /\ pc' = "returned"
    /\ routine' = [routine EXCEPT !.logged = [line |-> LogLine(result.error), node |-> urls[1],
                                              method |-> session.rpc_call]]
    /\ UNCHANGED <<merge_vars, chain_vars, gen_out, session_vars, BlockDB, BenchmarkRpcDB,
                   BenchmarkSystemDB, cycles, response>>

\* The session raised another exception: the handler reads the latest block of
\* the node from the store, logs it with the node and the method and returns.
db_bench_method_unexpected ==
    /\ Len(urls) = 1
    /\ pc = "raised"
    /\ result.error \notin SkippedErrors
    /\ pc' = "returned"
    /\ routine' = [routine EXCEPT !.logged =
                      [line |-> "UNEXPECTED ERROR", node |-> urls[1], method |-> session.rpc_call,
                       latest |-> latest_of_node(NodeDB_from_model_bench(urls[1]))]]
    /\ UNCHANGED <<merge_vars, chain_vars, gen_out, session_vars, BlockDB, BenchmarkRpcDB,
                   BenchmarkSystemDB, cycles, response>>

\* The same, when the store fails on the handler's query: the exception leaves
\* db_bench_method and the gather of db_bench_routine, which has no handler.
db_bench_method_unexpected_raises ==
    /\ Len(urls) = 1
    /\ pc = "raised"
    /\ result.error \notin SkippedErrors
    /\ pc' = "returned"
    /\ routine' = [routine EXCEPT !.state = "terminated"]
    /\ UNCHANGED <<merge_vars, chain_vars, gen_out, session_vars, BlockDB, BenchmarkRpcDB,
                   BenchmarkSystemDB, cycles, response>>

\* The value read from an attribute of a summary; None for one of its fields
\* that was not set.
getattr(o, name) == IF name \in DOMAIN o THEN o[name] ELSE "None"

\* The session returned: the summary of the node is added as a new row, with its
\* block if the store does not have it, and committed.
db_bench_method_stores ==
    /\ Len(urls) = 1
    /\ pc = "done"
    /\ LET node_results == result.nodes[1]
           benchmark == [node_idx |-> NodeDB_from_model_bench(urls[1]),
                         method_idx |-> RpcCallDB_from_model_bench(session.rpc_call),
                         elapsed_avg |-> node_results.elapsed_avg,
                         elapsed_low |-> getattr(node_results, "elapsed_low"),
                         elapsed_high |-> getattr(node_results, "elapsed_high"),
                         block_id |-> node_results.block_number]
       IN  /\ BlockDB' = BlockDB \cup {node_results.block_number}
           /\ BenchmarkRpcDB' = Append(BenchmarkRpcDB, benchmark)
    /\ pc' = "returned"
    /\ routine' = [routine EXCEPT !.logged = [line |-> "DONE", node |-> urls[1],
                                              method |-> session.rpc_call]]
    /\ UNCHANGED <<merge_vars, chain_vars, gen_out, session_vars, BenchmarkSystemDB, cycles,
                   response>>

\* The session returned and the code that stores the result raises: reading an
\* attribute the summary does not have, or the store failing on the read of the
\* block or on the commit. The code is outside the try of db_bench_method: the
\* exception leaves it and the gather of db_bench_routine, which has no handler.
db_bench_method_store_raises ==
    /\ Len(urls) = 1
    /\ pc = "done"
    /\ pc' = "returned"
    /\ routine' = [routine EXCEPT !.state = "terminated"]
    /\ UNCHANGED <<merge_vars, chain_vars, gen_out, session_vars, BlockDB, BenchmarkRpcDB,
                   BenchmarkSystemDB, cycles, response>>

NextBench ==
    \/ Anext
    \/ \E k \in 1..Len(urls) : ProbeBlockNumber(k)
    \/ \E k \in 1..Len(urls) : ProbeSyncing(k)
    \/ ProbeRaises
    \/ Tick
    \/ \E j \in 1..MaxSamples : RunnerReturns(j)
    \/ \E j \in 1..MaxSamples : RunnerRaises(j)
    \/ SyncBench
    \/ db_bench_method_skips
    \/ db_bench_method_unexpected
    \/ db_bench_method_unexpected_raises
    \/ db_bench_method_stores
    \/ db_bench_method_store_raises

SpecBench == InitBench /\ [][NextBench]_vars

\* The elapsed times of the samples of target k.
SamplesOf(k) == [j \in 1..Len(futures_bench[k]) |-> futures_bench[k][j].elapsed]

\* C1: the elapsed_avg of every target's summary is the floor of the mean of all
\* the samples of that target: avg * n <= sum < (avg + 1) * n, with n the number
\* of samples of the session and sum over every one of them.
C1_ElapsedAvgFloorMean ==
    pc = "done" =>
        \A k \in 1..Len(urls) :
            LET n == session.samples
                total == Sum(SamplesOf(k))
                avg == result.nodes[k].elapsed_avg
            IN  /\ Len(SamplesOf(k)) = n
                /\ avg * n <= total
                /\ total < (avg + 1) * n

\* A session returned a summary whose samples have a mean that is not an integer.
C1_Witness ==
    /\ pc = "done"
    /\ \E k \in 1..Len(urls) : Sum(SamplesOf(k)) % session.samples # 0

\* C2: every summary benchmark_rpc returns carries elapsed_low, the least of the
\* target's samples, and elapsed_high, the greatest, around elapsed_avg.
C2_LowHighCarried ==
    pc = "done" =>
        \A k \in 1..Len(urls) :
            LET node_results == result.nodes[k] IN
            /\ "elapsed_low" \in DOMAIN node_results
            /\ "elapsed_high" \in DOMAIN node_results
            /\ node_results.elapsed_low = SeqMin(SamplesOf(k))
            /\ node_results.elapsed_high = SeqMax(SamplesOf(k))
            /\ node_results.elapsed_low <= node_results.elapsed_avg
            /\ node_results.elapsed_avg <= node_results.elapsed_high

\* C9: a session that returned made samples x targets runner calls, one for
\* each target and sample index, the call of index i on the i-th input.
C9_FanOut ==
    pc = "done" =>
        /\ Len(issued) = session.samples * Len(urls)
        /\ \A k \in 1..Len(urls), i \in 0..(session.samples - 1) :
              LET made == {n \in 1..Len(issued) :
                              issued[n].node = urls[k] /\ issued[n].index = i}
              IN  /\ Cardinality(made) = 1
                  /\ \A n \in made : issued[n].input = inputs[i + 1]

\* A session on two targets returned, with two samples on different inputs.
C9_Witness ==
    /\ pc = "done"
    /\ Len(urls) = 2
    /\ session.samples >= 2
    /\ inputs[1] # inputs[2]

\* C10: every timed call of a session, of whatever target, is made i * interval
\* after the instant the first gather of the session started.
C10_LaunchedTogether ==
    \A k \in 1..Len(futures_bench) :
        \A j \in 1..Len(futures_bench[k]) :
            futures_bench[k][j].st \in {"calling", "done", "failed"} =>
                futures_bench[k][j].when = launched[1] + (j - 1) * session.interval


\* C11: the generator is pulled one input at a time, only while no timed call
\* is built and fewer than `samples` inputs are drawn; once the timed calls are
\* built, `samples` inputs have been drawn and sample i of every target is a
\* call on input i.
C11_InputsDrawnOnceAndShared ==
    /\ [](futures_bench # <<>> =>
            /\ Len(inputs) = session.samples
            /\ Len(futures_bench) = Len(urls)
            /\ \A k \in 1..Len(futures_bench) :
                  /\ Len(futures_bench[k]) = session.samples
                  /\ \A j \in 1..Len(futures_bench[k]) : futures_bench[k][j].input = inputs[j])
    /\ [][inputs' # inputs =>
            /\ futures_bench = <<>>
            /\ Len(inputs) < session.samples
            /\ inputs' = Append(inputs, gen_out'.input)]_vars

\* The second target of a session is being sampled, on two different inputs.
C11_Witness ==
    /\ pc = "bench"
    /\ cur = 2
    /\ session.samples >= 2
    /\ inputs[1] # inputs[2]
    /\ futures_bench[2][2].st = "calling"

\* C12: once the transport raised ErrorRpcCall on a sample, the session has
\* raised that error, its result holds no summary of any target, and the job
\* that ran it has stored no row and no block.
C12_NoPartialAggregation ==
    (\E k \in 1..Len(futures_bench) :
        \E j \in 1..Len(futures_bench[k]) : futures_bench[k][j].error = "ErrorRpcCall") =>
        /\ pc \in {"raised", "returned"}
        /\ result = [error |-> "ErrorRpcCall"]
        /\ BenchmarkRpcDB = <<>>
        /\ BenchmarkSystemDB = <<>>
        /\ BlockDB = {}

\* The job has handled a session whose second sample failed after the first
\* one had returned.
C12_Witness ==
    /\ pc = "returned"
    /\ session.samples >= 2
    /\ futures_bench # <<>>
    /\ futures_bench[1][1].st = "done"
    /\ futures_bench[1][2].error = "ErrorRpcCall"

\* C13: once a timed sample of any target has started, the block-number and
\* syncing probes of every target have returned; and the block_number and
\* syncing of a target's summary are what its probes returned, whatever the
\* node reports after the samples.
C13_ProbesBeforeSamples ==
    /\ (\E k \in 1..Len(futures_bench) :
           \E j \in 1..Len(futures_bench[k]) : futures_bench[k][j].st # "built") =>
          \A k \in 1..Len(urls) : block_nos[k] # -1 /\ sync_status[k] # "pending"
    /\ pc = "done" =>
          \A k \in 1..Len(urls) :
              /\ result.nodes[k].block_number = block_nos[k]
              /\ result.nodes[k].syncing = (sync_status[k] = "True")

\* A session returned after a target moved on from the block its probe reported.
C13_Witness ==
    /\ pc = "done"
    /\ \E k \in 1..Len(urls) : heights[urls[k]] > block_nos[k]

\* C14: when the session of db_bench_method raised ErrorNoInputFound,
\* ErrorStarknetVersion, ErrorRpcCall or ValidationError and the call returned,
\* the store is as it was before the cycle (empty), the error was logged and
\* db_bench_routine goes on.
C14_KnownErrorsSkipCycle ==
    (pc = "returned" /\ "error" \in DOMAIN result /\ result.error \in SkippedErrors) =>
        /\ BlockDB = {}
        /\ BenchmarkRpcDB = <<>>
        /\ BenchmarkSystemDB = <<>>
        /\ routine.state = "running"
        /\ routine.logged.line = LogLine(result.error)

\* The job has skipped a cycle whose generator refused the protocol version.
C14_Witness ==
    /\ pc = "returned"
    /\ result = [error |-> "ErrorStarknetVersion"]
    /\ routine.logged.line = "INVALID STARKNET VERSION"

\* C15: no exception of a benchmark cycle ends db_bench_routine: the job is
\* still running after every cycle, whatever the cycle raised.
C15_RoutineNeverTerminated == routine.state = "running"

\* C28: a session that raises while drawing its inputs or while probing the
\* targets raises before any runner call was made on any target: no call was
\* issued and every coroutine that was built has not been started.
Unstarted ==
    \A k \in 1..Len(futures_bench) : \A j \in 1..Len(futures_bench[k]) :
        futures_bench[k][j].st = "built"

C28_FailsBeforeAnyCall ==
    [][(pc \in {"gen", "probe_block", "probe_sync"} /\ pc' = "raised") =>
          (issued' = <<>> /\ Unstarted')]_vars

C28_Witness ==
    /\ pc = "raised"
    /\ result = [error |-> "ErrorRpcCall"]
    /\ Len(inputs) = session.samples
    /\ futures_bench # <<>>
    /\ issued = <<>>
    /\ Unstarted

\* -------------------------------------------------------------------------
\* SpecStore: the stores of the periodic job (app/database/__init__.py) and
\* the query endpoints (app/__init__.py)
\* -------------------------------------------------------------------------

\* Most runs of the periodic job that store rows.
MaxCycles == 2

\* The methods and metrics the job is run on here.
StoreMethods == {"starknet_blockNumber", "starknet_getBlockWithTxs"}
SystemMetric == {"cpu_system", "memory"}

\* The elapsed_avg, elapsed_low and elapsed_high of the summaries of the
\* sessions, and the values of the system metrics: the job measures them in
\* turn, run after run.
SessionElapsed == <<<<0, 0, 0>>, <<1, 0, 2>>>>
SystemValues == <<1, 4>>

Measured(values, n) == values[(n % Len(values)) + 1]

\* The chain the nodes follow: two blocks.
StoreChain ==
    [b \in 1..2 |-> [txs |-> "ok", storage_diffs |-> 2, events |-> 1,
                     receipts_invalid |-> FALSE]]

ResponseModelSystem(node, metric, block_number, value) ==
    [node |-> node, metric |-> metric, block_number |-> block_number, value |-> value]

\* The summary a row of benchmarkrpcdb is read back as, with the id of its block.
node_response_rpc(bench) ==
    NodeResponseBenchRpc(NodeName_from_scalar_idx(bench.node_idx), bench.block_id,
                         bench.elapsed_avg, bench.elapsed_low, bench.elapsed_high)

\* The summary a row of benchmarksystemdb is read back as, with the id of its block.
node_response_sys(bench) ==
    ResponseModelSystem(NodeName_from_scalar_idx(bench.node_idx),
                        SystemMetric_from_scalar_idx(bench.metrics_idx),
                        bench.block_id, bench.value)

deduplicate_merge_sys(st, resp) ==
    LET n == Len(st.acc) IN
    IF n > 0 /\ st.heap[st.acc[n]].block_number = st.heap[resp].block_number
    THEN LET t == st.acc[n] IN
         [heap |-> [st.heap EXCEPT ![t] =
                      [@ EXCEPT !.value = (@ + st.heap[resp].value) \div 2]],
          acc |-> st.acc]
    ELSE [heap |-> st.heap, acc |-> Append(st.acc, resp)]

RECURSIVE ReduceSys(_, _)
ReduceSys(st, l) ==
    IF l = <<>> THEN st
    ELSE ReduceSys(deduplicate_merge_sys(st, Head(l)), Tail(l))

apply_merge_sys(heap, l) == ReduceSys([heap |-> heap, acc |-> <<>>], l)

\* apply_merge_sys(apply_sort(l)) on a list of fresh objects with the values l.
MergedSys(l) ==
    LET st == apply_merge_sys(l, apply_sort(l, Identities(l)))
    IN  Deref(st.heap, st.acc)

\* latest(session): the highest block id of the store, 0 when it has no block.
latest == IF BlockDB = {} THEN 0 ELSE CHOOSE b \in BlockDB : \A c \in BlockDB : c <= b

\* A BlockRange query value: a block number or "latest".
BlockRange ==
    {[tag |-> "latest", n |-> 0]} \cup {[tag |-> "int", n |-> b] : b \in 0..1}

or_latest(n, l) == IF n.tag = "latest" THEN l ELSE n.n

\* A RangeLimit query value: absent or a number of rows.
RangeLimit == {<<>>, <<1>>}

\* The lists of rows a select without ORDER BY can return, cut at the limit.
all(table, rows, limit) ==
    {[i \in 1..(IF limit = <<>> THEN Len(l) ELSE Min2(Len(l), limit[1])) |-> table[l[i]]] :
        l \in {o \in [1..Cardinality(rows) -> rows] :
                  \A i, j \in 1..Cardinality(rows) : o[i] = o[j] => i = j}}

\* where of GET /bench/rpc without the filter on the method.
where_rpc_any_method(block_start, block_end, node_idx, method_idx, bench) ==
    /\ bench.block_id >= block_start
    /\ bench.block_id <= block_end
    /\ bench.node_idx = node_idx

where_rpc(block_start, block_end, node_idx, method_idx, bench) ==
    /\ bench.block_id >= block_start
    /\ bench.block_id <= block_end
    /\ bench.node_idx = node_idx
    /\ bench.method_idx = method_idx

where_sys(block_start, block_end, node_idx, metrics_idx, bench) ==
    /\ bench.block_id >= block_start
    /\ bench.block_id <= block_end
    /\ bench.node_idx = node_idx
    /\ bench.metrics_idx = metrics_idx

\* The rows of a table, joined to their block, that pass the filter.
select_rpc(block_start, block_end, node_idx, method_idx) ==
    {i \in 1..Len(BenchmarkRpcDB) :
        /\ BenchmarkRpcDB[i].block_id \in BlockDB
        /\ where_rpc(block_start, block_end, node_idx, method_idx, BenchmarkRpcDB[i])}

select_sys(block_start, block_end, node_idx, metrics_idx) ==
    {i \in 1..Len(BenchmarkSystemDB) :
        /\ BenchmarkSystemDB[i].block_id \in BlockDB
        /\ where_sys(block_start, block_end, node_idx, metrics_idx, BenchmarkSystemDB[i])}

resps_rpc(blocks) == [i \in 1..Len(blocks) |-> node_response_rpc(blocks[i])]

resps_sys(blocks) == [i \in 1..Len(blocks) |-> node_response_sys(blocks[i])]


InitStore ==
    /\ IdleMerge
    /\ IdleBench
    /\ gen_out = [kind |-> "idle"]
    /\ urls = <<"madara", "juno">>
    /\ chain = StoreChain
    /\ heights \in [Targets(urls) -> 0..(Len(chain) - 1)]
    /\ starknet_version = Str_0_13_2
    /\ BlockDB = {}
    /\ BenchmarkRpcDB = <<>>
    /\ BenchmarkSystemDB = <<>>
    /\ cycles = 0
    /\ response = [endpoint |-> "", status |-> "", request |-> <<>>, data |-> <<>>]
    /\ routine = [state |-> "running", logged |-> <<>>]

\* db_bench_method for one node and method, when its session returns: the
\* summary of the node, at the block number the node reported, is added as a
\* new row, with its block if the store does not have it. The summary is taken
\* with the three elapsed figures the row is built from. When the session
\* raises, the job logs the error and stores nothing.
db_bench_method(node_rpc, method_rpc) ==
    /\ cycles < MaxCycles
    /\ LET e == Measured(SessionElapsed, cycles) IN
          LET node_results == NodeResponseBenchRpc(node_rpc, heights[node_rpc], e[1], e[2], e[3])
              benchmark == [node_idx |-> NodeDB_from_model_bench(node_rpc),
                            method_idx |-> RpcCallDB_from_model_bench(method_rpc),
                            elapsed_avg |-> node_results.elapsed_avg,
                            elapsed_low |-> node_results.elapsed_low,
                            elapsed_high |-> node_results.elapsed_high,
                            block_id |-> node_results.block_number]
          IN  /\ BlockDB' = BlockDB \cup {node_results.block_number}
              /\ BenchmarkRpcDB' = Append(BenchmarkRpcDB, benchmark)
    /\ cycles' = cycles + 1
    /\ UNCHANGED <<merge_vars, chain_vars, gen_out, bench_vars, BenchmarkSystemDB, response, routine>>

\* db_bench_system for one metric, when benchmark_system returns: one new row
\* per node, at the block number the node reported.
db_bench_system(metrics_app) ==
    /\ cycles < MaxCycles
    /\ LET value == [k \in 1..Len(urls) |-> Measured(SystemValues, cycles + k)] IN
          LET system_results ==
                  [k \in 1..Len(urls) |->
                      ResponseModelSystem(urls[k], metrics_app, heights[urls[k]], value[k])]
          IN  /\ BlockDB' = BlockDB \cup
                     {system_results[k].block_number : k \in 1..Len(system_results)}
              /\ BenchmarkSystemDB' = BenchmarkSystemDB \o
                     [k \in 1..Len(system_results) |->
                         [node_idx |-> NodeDB_from_model_bench(system_results[k].node),
                          metrics_idx |-> SystemMetricDB_from_model_bench(metrics_app),
                          value |-> system_results[k].value,
                          block_id |-> system_results[k].block_number]]
    /\ cycles' = cycles + 1
    /\ UNCHANGED <<merge_vars, chain_vars, gen_out, bench_vars, BenchmarkRpcDB, response, routine>>

\* GET /bench/rpc
GetBenchRpc ==
    /\ response.status = ""
    /\ \E method \in StoreMethods, node \in NodeName, bs \in BlockRange, be \in BlockRange,
          limit \in RangeLimit :
          LET block_start == or_latest(bs, latest)
              block_end == or_latest(be, latest)
              rows == select_rpc(block_start, block_end, NodeDB_from_model_bench(node),
                                 RpcCallDB_from_model_bench(method))
          IN  \E blocks \in all(BenchmarkRpcDB, rows, limit) :
                 response' = [endpoint |-> "/bench/rpc", status |-> "ok",
                              request |-> [method |-> method, node |-> node,
                                           block_start |-> bs, block_end |-> be,
                                           limit |-> limit],
                              data |-> Merged(resps_rpc(blocks))]
    /\ UNCHANGED <<merge_vars, chain_vars, gen_out, bench_vars, BlockDB, BenchmarkRpcDB,
                   BenchmarkSystemDB, cycles, routine>>

\* GET /bench/sys
GetBenchSys ==
    /\ response.status = ""
    /\ \E metrics \in SystemMetric, node \in NodeName, bs \in BlockRange, be \in BlockRange,
          limit \in RangeLimit :
          LET block_start == or_latest(bs, latest)
              block_end == or_latest(be, latest)
              rows == select_sys(block_start, block_end, NodeDB_from_model_bench(node),
                                 SystemMetricDB_from_model_bench(metrics))
          IN  \E blocks \in all(BenchmarkSystemDB, rows, limit) :
                 response' = [endpoint |-> "/bench/sys", status |-> "ok",
                              request |-> [metrics |-> metrics, node |-> node,
                                           block_start |-> bs, block_end |-> be,
                                           limit |-> limit],
                              data |-> resps_sys(blocks)]
    /\ UNCHANGED <<merge_vars, chain_vars, gen_out, bench_vars, BlockDB, BenchmarkRpcDB,
                   BenchmarkSystemDB, cycles, routine>>

\* The lists of nodes a graph is asked for.
GraphNodes == {<<"madara">>, <<"juno">>, <<"madara", "juno">>}

\* data of POST /bench/graph/rpc with the rows of all the nodes asked for
\* merged as one series.
graph_data_rpc_across_nodes(nodes, block_start, block_end, method_idx) ==
    LET rows == UNION {select_rpc(block_start, block_end,
                                  NodeDB_from_model_bench(nodes[k]), method_idx) :
                          k \in 1..Len(nodes)}
    IN  {Merged(resps_rpc(blks)) : blks \in all(BenchmarkRpcDB, rows, <<>>)}

\* data of POST /bench/graph/rpc: the merged series of every node asked for,
\* one after the other; every list the selects can lead to.
RECURSIVE graph_data_rpc(_, _, _, _)
graph_data_rpc(nodes, block_start, block_end, method_idx) ==
    IF nodes = <<>> THEN {<<>>}
    ELSE LET rows == select_rpc(block_start, block_end,
                                NodeDB_from_model_bench(Head(nodes)), method_idx)
         IN  {Merged(resps_rpc(blks)) \o rest :
                 blks \in all(BenchmarkRpcDB, rows, <<>>),
                 rest \in graph_data_rpc(Tail(nodes), block_start, block_end, method_idx)}

RECURSIVE graph_data_sys(_, _, _, _)
graph_data_sys(nodes, block_start, block_end, metrics_idx) ==
    IF nodes = <<>> THEN {<<>>}
    ELSE LET rows == select_sys(block_start, block_end,
                                NodeDB_from_model_bench(Head(nodes)), metrics_idx)
         IN  {MergedSys(resps_sys(blks)) \o rest :
                 blks \in all(BenchmarkSystemDB, rows, <<>>),
                 rest \in graph_data_sys(Tail(nodes), block_start, block_end, metrics_idx)}

\* POST /bench/graph/rpc: data is what the graph is drawn from.
PostBenchGraphRpc ==
    /\ response.status = ""
    /\ \E method \in StoreMethods, nodes \in GraphNodes, bs \in BlockRange, be \in BlockRange :
          \E data \in graph_data_rpc(nodes, or_latest(bs, latest), or_latest(be, latest),
                                     RpcCallDB_from_model_bench(method)) :
             response' = [endpoint |-> "/bench/graph/rpc",
                          status |-> IF Len(data) = 0 THEN "ErrorNoInputFound" ELSE "ok",
                          request |-> [method |-> method, nodes |-> nodes,
                                       block_start |-> bs, block_end |-> be],
                          data |-> data]
    /\ UNCHANGED <<merge_vars, chain_vars, gen_out, bench_vars, BlockDB, BenchmarkRpcDB,
                   BenchmarkSystemDB, cycles, routine>>

\* POST /bench/graph/sys
PostBenchGraphSys ==
    /\ response.status = ""
    /\ \E metrics \in SystemMetric, nodes \in GraphNodes, bs \in BlockRange, be \in BlockRange :
          \E data \in graph_data_sys(nodes, or_latest(bs, latest), or_latest(be, latest),
                                     SystemMetricDB_from_model_bench(metrics)) :
             response' = [endpoint |-> "/bench/graph/sys",
                          status |-> IF Len(data) = 0 THEN "ErrorNoInputFound" ELSE "ok",
                          request |-> [metrics |-> metrics, nodes |-> nodes,
                                       block_start |-> bs, block_end |-> be],
                          data |-> data]
    /\ UNCHANGED <<merge_vars, chain_vars, gen_out, bench_vars, BlockDB, BenchmarkRpcDB,
                   BenchmarkSystemDB, cycles, routine>>

\* The response is sent; the endpoints answer one request at a time.
Respond ==
    /\ response.status # ""
    /\ response' = [endpoint |-> "", status |-> "", request |-> <<>>, data |-> <<>>]
    /\ UNCHANGED <<merge_vars, chain_vars, gen_out, bench_vars, BlockDB, BenchmarkRpcDB,
                   BenchmarkSystemDB, cycles, routine>>

\* A node catches up with the chain between two runs of the job.
SyncStore ==
    /\ \E n \in Targets(urls) : Sync(n)
    /\ UNCHANGED <<merge_vars, gen_out, bench_vars, store_vars>>

NextStore ==
    \/ \E node \in NodeName, method \in StoreMethods : db_bench_method(node, method)
    \/ \E metrics \in SystemMetric : db_bench_system(metrics)
    \/ GetBenchRpc
    \/ GetBenchSys
    \/ PostBenchGraphRpc
    \/ PostBenchGraphSys
    \/ Respond
    \/ SyncStore

SpecStore == InitStore /\ [][NextStore]_vars

\* A series in ascending order of block number with no block number twice.
MergedSeries(l) == \A i \in 1..(Len(l) - 1) : l[i].block_number < l[i + 1].block_number

\* The entries of a node in a list, in order.
SeriesOf(l, node) == SelectSeq(l, LAMBDA x : x.node = node)

\* C6: in every answer of a query endpoint the entries of each node are in
\* ascending order of block number, with at most one entry per block number.
C6_QueryResultMergedSeries ==
    response.status = "ok" =>
        \A node \in NodeName : MergedSeries(SeriesOf(response.data, node))

\* C17: the store holds at most one summary row per node, method or metric,
\* and block number.
C17_OneRowPerKey ==
    /\ \A i, j \in 1..Len(BenchmarkRpcDB) :
          (/\ BenchmarkRpcDB[i].node_idx = BenchmarkRpcDB[j].node_idx
           /\ BenchmarkRpcDB[i].method_idx = BenchmarkRpcDB[j].method_idx
           /\ BenchmarkRpcDB[i].block_id = BenchmarkRpcDB[j].block_id) => i = j
    /\ \A i, j \in 1..Len(BenchmarkSystemDB) :
          (/\ BenchmarkSystemDB[i].node_idx = BenchmarkSystemDB[j].node_idx
           /\ BenchmarkSystemDB[i].metrics_idx = BenchmarkSystemDB[j].metrics_idx
           /\ BenchmarkSystemDB[i].block_id = BenchmarkSystemDB[j].block_id) => i = j

\* The highest block number of the store.
HighestBlock == IF BlockDB = {} THEN 0 ELSE CHOOSE b \in BlockDB : \A c \in BlockDB : c <= b

\* The block number a bound of a requested range stands for.
BoundOf(n) == IF n.tag = "latest" THEN HighestBlock ELSE n.n

\* The rows of benchmarkrpcdb a request for a node, a method and a range of
\* blocks is about.
MatchingRpc(q) ==
    {i \in 1..Len(BenchmarkRpcDB) :
        /\ NodeName_from_scalar_idx(BenchmarkRpcDB[i].node_idx) = q.node
        /\ RpcCallBench_from_scalar_idx(BenchmarkRpcDB[i].method_idx) = q.method
        /\ BoundOf(q.block_start) <= BenchmarkRpcDB[i].block_id
        /\ BenchmarkRpcDB[i].block_id <= BoundOf(q.block_end)}

\* The answer of GET /bench/rpc is what the store holds for the request.
BenchRpcAnswer ==
    (response.status = "ok" /\ response.endpoint = "/bench/rpc") =>
        LET q == response.request
            data == response.data
            rows == MatchingRpc(q)
        IN  /\ \A e \in 1..Len(data) :
                  /\ data[e].node = q.node
                  /\ BoundOf(q.block_start) <= data[e].block_number
                  /\ data[e].block_number <= BoundOf(q.block_end)
                  /\ \E i \in rows :
                        /\ BenchmarkRpcDB[i].block_id = data[e].block_number
                        /\ BenchmarkRpcDB[i].elapsed_low = data[e].elapsed_low
                  /\ \E i \in rows :
                        /\ BenchmarkRpcDB[i].block_id = data[e].block_number
                        /\ BenchmarkRpcDB[i].elapsed_high = data[e].elapsed_high
            /\ q.limit = <<>> =>
                  \A i \in rows : \E e \in 1..Len(data) :
                      data[e].block_number = BenchmarkRpcDB[i].block_id

MatchingSys(q) ==
    {i \in 1..Len(BenchmarkSystemDB) :
        /\ NodeName_from_scalar_idx(BenchmarkSystemDB[i].node_idx) = q.node
        /\ SystemMetric_from_scalar_idx(BenchmarkSystemDB[i].metrics_idx) = q.metrics
        /\ BoundOf(q.block_start) <= BenchmarkSystemDB[i].block_id
        /\ BenchmarkSystemDB[i].block_id <= BoundOf(q.block_end)}

\* The rows a request for a graph is about, for one of its nodes.
RowsOfRpc(node, q) ==
    MatchingRpc([node |-> node, method |-> q.method,
                 block_start |-> q.block_start, block_end |-> q.block_end])

RowsOfSys(node, q) ==
    MatchingSys([node |-> node, metrics |-> q.metrics,
                 block_start |-> q.block_start, block_end |-> q.block_end])

SetMin(S) == CHOOSE x \in S : \A y \in S : x <= y
SetMax(S) == CHOOSE x \in S : \A y \in S : x >= y

\* The data of POST /bench/graph/rpc: every entry is of a requested node and
\* carries the lowest and highest elapsed time of that node's rows at its
\* block, and every requested node has one entry for each of its blocks.
GraphRpcAnswer ==
    response.endpoint = "/bench/graph/rpc" =>
        LET q == response.request
            data == response.data
        IN  /\ \A e \in 1..Len(data) :
                  /\ data[e].node \in Targets(q.nodes)
                  /\ LET at == {i \in RowsOfRpc(data[e].node, q) :
                                   BenchmarkRpcDB[i].block_id = data[e].block_number}
                     IN  /\ at # {}
                         /\ data[e].elapsed_low =
                                SetMin({BenchmarkRpcDB[i].elapsed_low : i \in at})
                         /\ data[e].elapsed_high =
                                SetMax({BenchmarkRpcDB[i].elapsed_high : i \in at})
            /\ \A node \in Targets(q.nodes) : \A i \in RowsOfRpc(node, q) :
                  Cardinality({e \in 1..Len(data) :
                                  /\ data[e].node = node
                                  /\ data[e].block_number = BenchmarkRpcDB[i].block_id}) = 1

\* The same for POST /bench/graph/sys, whose entries carry a value between
\* the lowest and the highest value of the node's rows at the block.
GraphSysAnswer ==
    response.endpoint = "/bench/graph/sys" =>
        LET q == response.request
            data == response.data
        IN  /\ \A e \in 1..Len(data) :
                  /\ data[e].node \in Targets(q.nodes)
                  /\ LET at == {i \in RowsOfSys(data[e].node, q) :
                                   BenchmarkSystemDB[i].block_id = data[e].block_number}
                     IN  /\ at # {}
                         /\ data[e].value >= SetMin({BenchmarkSystemDB[i].value : i \in at})
                         /\ data[e].value <= SetMax({BenchmarkSystemDB[i].value : i \in at})
            /\ \A node \in Targets(q.nodes) : \A i \in RowsOfSys(node, q) :
                  Cardinality({e \in 1..Len(data) :
                                  /\ data[e].node = node
                                  /\ data[e].block_number = BenchmarkSystemDB[i].block_id}) = 1

RECURSIVE gcd(_, _)
gcd(a, b) == IF b = 0 THEN a ELSE gcd(b, a % b)

\* Python numbers: an int, or a float held as a fraction in lowest terms.
py_int(n) == [type |-> "int", num |-> n, den |-> 1]

py_float(n, d) ==
    LET g == gcd(n, d) IN [type |-> "float", num |-> n \div g, den |-> d \div g]

\* The class int, an object like any other.
int == [type |-> "class", num |-> 0, den |-> 0]

\* a is b: the two names are bound to the same object.
is(a, b) == a = b

\* a + b: an int when both are ints.
py_add(a, b) ==
    IF a.type = "int" /\ b.type = "int" THEN py_int(a.num + b.num)
    ELSE py_float(a.num * b.den + b.num * a.den, a.den * b.den)

\* sum(l): from the int 0, left to right.
RECURSIVE sum(_)
sum(l) ==
    IF l = <<>> THEN py_int(0)
    ELSE py_add(sum(SubSeq(l, 1, Len(l) - 1)), l[Len(l)])

\* a // n for an int n: the floor of the quotient, of the type of a.
py_floordiv(a, n) ==
    LET q == a.num \div (a.den * n)
    IN  IF a.type = "int" THEN py_int(q) ELSE py_float(q, 1)

\* a / n for an int n: always a float.
py_truediv(a, n) == py_float(a.num, a.den * n)

\* The metrics measured in whole units.
IntegerMetrics == {"memory"}

\* The values a sample of a metric can have: memory_stats.usage is an int, the
\* CPU percentage a float.
MAPPINGS_SYSTEM(metric) ==
    IF metric \in IntegerMetrics THEN {py_int(1), py_int(2)}
    ELSE {py_float(1, 2), py_float(3, 2)}

\* value_avg of benchmark_system.
value_avg(value) ==
    IF is(value[1][1], int)
    THEN [k \in 1..Len(value) |-> py_floordiv(sum(value[k]), Len(value[k]))]
    ELSE [k \in 1..Len(value) |-> py_truediv(sum(value[k]), Len(value[k]))]

InitSys ==
    /\ IdleMerge
    /\ IdleStore
    /\ gen_out = [kind |-> "idle"]
    /\ urls \in {<<"madara">>, <<"madara", "juno">>}
    /\ chain = StoreChain
    /\ heights \in [Targets(urls) -> 0..(Len(chain) - 1)]
    /\ starknet_version = Str_0_13_2
    /\ session \in [metric : SystemMetric, samples : 1..MaxSamples, interval : TestInterval]
    /\ pc = "probe_block"
    /\ inputs = <<>>
    /\ block_nos = [k \in 1..Len(urls) |-> -1]
    /\ sync_status = [k \in 1..Len(urls) |-> "pending"]
    /\ futures_bench = [k \in 1..Len(urls) |->
                          [j \in 1..session.samples |->
                              [node |-> urls[k], index |-> j - 1,
                               delay |-> (j - 1) * session.interval,
                               st |-> "built", value |-> py_int(0)]]]
    /\ cur = 0
    /\ launched = <<>>
    /\ issued = <<>>
    /\ now = 0
    /\ result = <<>>

\* await asyncio.gather(*futures_block_no)
SysProbeBlockNumber ==
    /\ pc = "probe_block"
    /\ block_nos' = [k \in 1..Len(urls) |-> heights[urls[k]]]
    /\ pc' = "probe_sync"
    /\ UNCHANGED <<store_vars, merge_vars, chain_vars, gen_out, session, inputs, sync_status,
                   futures_bench, cur, launched, issued, now, result>>

\* await asyncio.gather(*futures_syncing); then the samples of the first
\* target are gathered.
SysProbeSyncing ==
    /\ pc = "probe_sync"
    /\ sync_status' = [k \in 1..Len(urls) |->
                          IF heights[urls[k]] < Len(chain) - 1 THEN "True" ELSE "False"]
    /\ pc' = "bench"
    /\ cur' = 1
    /\ UNCHANGED <<store_vars, merge_vars, chain_vars, gen_out, session, inputs, block_nos,
                   futures_bench, launched, issued, now, result>>

\* One sample of the target being gathered returns; after the last sample of
\* a target the next target is gathered, and after the last target the
\* session returns its summaries.
SysSample(j) ==
    /\ pc = "bench"
    /\ j \in 1..session.samples
    /\ futures_bench[cur][j].st = "built"
    /\ \E v \in MAPPINGS_SYSTEM(session.metric) :
          /\ futures_bench' = [futures_bench EXCEPT ![cur][j].st = "done", ![cur][j].value = v]
          /\ LET gathered == \A i \in 1..session.samples : futures_bench'[cur][i].st = "done"
                 value == [k \in 1..Len(urls) |->
                              [i \in 1..session.samples |-> futures_bench'[k][i].value]]
             IN  IF gathered /\ cur = Len(urls)
                 THEN /\ pc' = "done"
                      /\ result' = [k \in 1..Len(urls) |->
                                      ResponseModelSystem(futures_bench'[k][1].node, session.metric,
                                                          block_nos[k], value_avg(value)[k])]
                      /\ cur' = cur
                 ELSE /\ pc' = pc
                      /\ result' = result
                      /\ cur' = IF gathered THEN cur + 1 ELSE cur
    /\ UNCHANGED <<store_vars, merge_vars, chain_vars, gen_out, session, inputs, block_nos,
                   sync_status, launched, issued, now>>

\* A probe or a sample raises: the session raises.
SysRaises ==
    /\ pc \in {"probe_block", "probe_sync", "bench"}
    /\ pc' = "raised"
    /\ result' = [error |-> "Exception"]
    /\ UNCHANGED <<store_vars, merge_vars, chain_vars, gen_out, session, inputs, block_nos,
                   sync_status, futures_bench, cur, launched, issued, now>>

\* A node catches up with the chain during the session.
SyncSys ==
    /\ pc \in {"probe_block", "probe_sync", "bench"}
    /\ \E n \in Targets(urls) : Sync(n)
    /\ UNCHANGED <<store_vars, merge_vars, gen_out, bench_vars>>

NextSys ==
    \/ SysProbeBlockNumber
    \/ SysProbeSyncing
    \/ \E j \in 1..MaxSamples : SysSample(j)
    \/ SysRaises
    \/ SyncSys

SpecSys == InitSys /\ [][NextSys]_vars

\* The samples of target k of a returned session, as plain numbers.
SysSamplesOf(k) == [j \in 1..session.samples |-> futures_bench[k][j].value.num]

\* C16: for a metric measured in whole units the value of every summary is,
\* as a number, the integer floor of the mean of the target's samples.
C16_IntegerMetricFloorMean ==
    (pc = "done" /\ session.metric \in IntegerMetrics) =>
        \A k \in 1..Len(urls) :
            result[k].value.num =
                (Sum(SysSamplesOf(k)) \div session.samples) * result[k].value.den

\* -------------------------------------------------------------------------
\* SpecVersion: error.ensure_meet_version_requirements on the versions a
\* block can report (app/error.py)
\* -------------------------------------------------------------------------

Str_0_13_1 == <<48, 46, 49, 51, 46, 49>>

\* The members of the enumeration StarknetVersion.
StarknetVersion == {Str_0_13_0, Str_0_13_1, StarknetVersion_V0_13_1_1}

\* The components the reported versions are made of, and how many a version has.
VersionComponents == {0, 1, 9, 13}
VersionLengths == {3, 4}

\* str(n) of a natural number, as character codes.
RECURSIVE Digits(_)
Digits(n) == IF n < 10 THEN <<48 + n>> ELSE Digits(n \div 10) \o <<48 + (n % 10)>>

\* ".".join(str(c) for c in cs)
RECURSIVE Dotted(_)
Dotted(cs) ==
    IF Len(cs) = 1 THEN Digits(cs[1])
    ELSE Digits(cs[1]) \o <<46>> \o Dotted(Tail(cs))

\* The versions a block can report.
ReportedVersions ==
    {Dotted(cs) : cs \in UNION {[1..n -> VersionComponents] : n \in VersionLengths}}

\* [int(c) for c in s.split(".")], with n the number read so far.
RECURSIVE SplitVersion(_, _)
SplitVersion(s, n) ==
    IF s = <<>> THEN <<n>>
    ELSE IF s[1] = 46 THEN <<n>> \o SplitVersion(Tail(s), 0)
    ELSE SplitVersion(Tail(s), 10 * n + (s[1] - 48))

\* a < b in dotted-numeric order: component by component as integers, a proper
\* prefix first.
RECURSIVE NumLess(_, _)
NumLess(a, b) ==
    IF b = <<>> THEN FALSE
    ELSE IF a = <<>> THEN TRUE
    ELSE IF a[1] # b[1] THEN a[1] < b[1]
    ELSE NumLess(Tail(a), Tail(b))

InitVersion ==
    /\ IdleMerge
    /\ IdleStore
    /\ IdleBench
    /\ urls = <<>>
    /\ heights = <<>>
    /\ chain = <<>>
    /\ starknet_version \in ReportedVersions
    /\ gen_out = [kind |-> "idle"]

\* One call of ensure_meet_version_requirements(method, v, v_min) with the
\* version of the block: it raises or returns.
Call_ensure_meet_version_requirements ==
    /\ gen_out.kind = "idle"
    /\ \E v_min \in StarknetVersion :
          gen_out' = [kind |-> IF ensure_meet_version_requirements(starknet_version, v_min)
                               THEN "raise" ELSE "return",
                      gen |-> "ensure_meet_version_requirements",
                      error |-> IF ensure_meet_version_requirements(starknet_version, v_min)
                                THEN "ErrorStarknetVersion" ELSE "",
                      v |-> starknet_version, v_min |-> v_min]
    /\ UNCHANGED <<store_vars, merge_vars, chain_vars, bench_vars>>

\* The caller goes on to another call.
Return_ensure_meet_version_requirements ==
    /\ gen_out.kind \in {"raise", "return"}
    /\ gen_out' = [kind |-> "idle"]
    /\ UNCHANGED <<store_vars, merge_vars, chain_vars, bench_vars>>

NextVersion ==
    \/ Call_ensure_meet_version_requirements
    \/ Return_ensure_meet_version_requirements

SpecVersion == InitVersion /\ [][NextVersion]_vars

\* C23: ensure_meet_version_requirements raises ErrorStarknetVersion exactly
\* when the version of the block is below the minimum in dotted-numeric order.
C23_DottedNumericOrder ==
    gen_out.kind \in {"raise", "return"} =>
        ((gen_out.kind = "raise" /\ gen_out.error = "ErrorStarknetVersion")
            <=> NumLess(SplitVersion(gen_out.v, 0), SplitVersion(gen_out.v_min, 0)))

\* -------------------------------------------------------------------------
\* SpecRoutine: db_bench_routine, followed from any entry of its catalogues
\* -------------------------------------------------------------------------

\* methods of db_bench_routine: (method_rpc, method_db, samples, interval).
methods ==
    <<
      [method_rpc |-> "starknet_blockHashAndNumber", method_db |-> 0, samples |-> 10, interval |-> 100],
      [method_rpc |-> "starknet_blockNumber", method_db |-> 1, samples |-> 10, interval |-> 100],
      [method_rpc |-> "starknet_chainId", method_db |-> 2, samples |-> 10, interval |-> 100],
      [method_rpc |-> "starknet_estimateFee", method_db |-> 3, samples |-> 10, interval |-> 250],
      [method_rpc |-> "starknet_estimateMessageFee", method_db |-> 4, samples |-> 10, interval |-> 250],
      [method_rpc |-> "starknet_getBlockTransactionCount", method_db |-> 5, samples |-> 10, interval |-> 100],
      [method_rpc |-> "starknet_getBlockWithReceipts", method_db |-> 6, samples |-> 10, interval |-> 100],
      [method_rpc |-> "starknet_getBlockWithTxHashes", method_db |-> 7, samples |-> 10, interval |-> 100],
      [method_rpc |-> "starknet_getBlockWithTxs", method_db |-> 8, samples |-> 10, interval |-> 100],
      [method_rpc |-> "starknet_getClass", method_db |-> 9, samples |-> 10, interval |-> 100],
      [method_rpc |-> "starknet_getClassAt", method_db |-> 10, samples |-> 10, interval |-> 100],
      [method_rpc |-> "starknet_getClassHashAt", method_db |-> 11, samples |-> 10, interval |-> 100],
      [method_rpc |-> "starknet_getEvents", method_db |-> 12, samples |-> 10, interval |-> 500],
      [method_rpc |-> "starknet_getNonce", method_db |-> 13, samples |-> 10, interval |-> 100],
      [method_rpc |-> "starknet_getStateUpdate", method_db |-> 14, samples |-> 10, interval |-> 100],
      [method_rpc |-> "starknet_getStorageAt", method_db |-> 15, samples |-> 10, interval |-> 100],
      [method_rpc |-> "starknet_getTransactionByBlockIdAndIndex", method_db |-> 16, samples |-> 10, interval |-> 100],
      [method_rpc |-> "starknet_getTransactionByHash", method_db |-> 17, samples |-> 10, interval |-> 100],
      [method_rpc |-> "starknet_getTransactionReceipt", method_db |-> 18, samples |-> 10, interval |-> 100],
      [method_rpc |-> "starknet_getTransactionStatus", method_db |-> 19, samples |-> 10, interval |-> 100],
      [method_rpc |-> "starknet_specVersion", method_db |-> 20, samples |-> 10, interval |-> 100],
      [method_rpc |-> "starknet_syncing", method_db |-> 21, samples |-> 10, interval |-> 100],
      [method_rpc |-> "starknet_simulateTransactions", method_db |-> 22, samples |-> 10, interval |-> 250],
      [method_rpc |-> "starknet_traceBlockTransactions", method_db |-> 23, samples |-> 10, interval |-> 250]>>

\* metrics of db_bench_routine: (metrics_app, metrics_db, samples, interval).
metrics ==
    <<[metrics_app |-> "cpu_system", metrics_db |-> 0, samples |-> 10, interval |-> 1000],
      [metrics_app |-> "memory", metrics_db |-> 1, samples |-> 10, interval |-> 1000],
      [metrics_app |-> "storage", metrics_db |-> 2, samples |-> 1, interval |-> 1000]>>

\* The keys of the dict MAPPINGS_RPC.
MAPPINGS_RPC_keys ==
    {"starknet_blockHashAndNumber", "starknet_blockNumber", "starknet_chainId",
     "starknet_estimateFee", "starknet_estimateMessageFee",
     "starknet_getBlockTransactionCount", "starknet_getBlockWithReceipts",
     "starknet_getBlockWithTxHashes", "starknet_getBlockWithTxs", "starknet_getClass",
     "starknet_getClassAt", "starknet_getClassHashAt", "starknet_getNonce",
     "starknet_getStateUpdate", "starknet_getStorageAt",
     "starknet_getTransactionByBlockIdAndIndex", "starknet_getTransactionByHash",
     "starknet_getTransactionReceipt", "starknet_getTransactionStatus",
     "starknet_specVersion", "starknet_syncing", "starknet_simulateTransactions",
     "starknet_traceBlockTransactions", "starknet_traceTransaction"}

\* The keys of the dict MAPPINGS_SYSTEM.
MAPPINGS_SYSTEM_keys == {"cpu", "cpu_system", "memory", "storage"}

\* The nodes db_bench_routine gathers a db_bench_method call for, in the order
\* of the arguments of asyncio.gather, and the node_db passed with each.
RoutineNodes == <<"madara", "juno", "pathfinder">>

\* The block numbers the nodes report during the rounds followed: the nodes
\* are at the same block, or madara is one block ahead.
RoutineHeights ==
    {[madara |-> 1, juno |-> 1, pathfinder |-> 1],
     [madara |-> 2, juno |-> 1, pathfinder |-> 1]}

NodeDB(node_rpc) ==
    CASE node_rpc = "madara" -> 0
      [] node_rpc = "juno" -> 1
      [] node_rpc = "pathfinder" -> 2

\* The exceptions db_bench_method has a clause of their own for.
KnownErrors == {"ErrorNoInputFound", "ErrorStarknetVersion", "ErrorRpcCall", "ValidationError"}

\* What the await of benchmark_rpc ends with when every call to a node returns
\* a value or a known error: tool = MAPPINGS_RPC[rpc_call] raises KeyError for a
\* method without tools; otherwise the session returns or raises one of the
\* errors of the generators, the probes and the runners.
benchmark_rpc(rpc_call) ==
    IF rpc_call \notin MAPPINGS_RPC_keys THEN {"KeyError"}
    ELSE {"return"} \cup KnownErrors

\* What the await of benchmark_system can end with.
benchmark_system(metric) ==
    IF metric \notin MAPPINGS_SYSTEM_keys THEN {"KeyError"}
    ELSE {"return", "APIError"}

\* A db_bench_method without except clauses.
db_bench_method_reraises(e) == "raised"

\* The except clauses of db_bench_method: the four named clauses log and
\* return, and so does the clause of the other exceptions, after it read the
\* latest block of the node.
db_bench_method_except(e) ==
    IF e \in KnownErrors THEN "skipped" ELSE "unexpected"

\* A look-up that finds no row.
s_get_none(table, id) == <<>>

\* s.get(models.BlockDB, id): the row of the table with this key, or None (<<>>).
s_get(table, id) == IF id \in table THEN <<id>> ELSE <<>>

\* s.commit() of a session that holds the block `block` (a new object, or the
\* row s.get returned) and one new benchmark row: the insert of a new block
\* whose key the table already has is refused (IntegrityError).
commit(table, block_db, id) ==
    IF block_db = <<>> /\ id \in table THEN "IntegrityError" ELSE "ok"

\* A gather that resumes its caller when the first of its coroutines is done.
gathered_first_completed(calls) ==
    \E k \in DOMAIN calls : calls[k].st # "awaiting"

\* asyncio.gather resumes its caller when every coroutine is done.
gathered(calls) ==
    \A k \in DOMAIN calls : calls[k].st # "awaiting"

\* The coroutine of a db_bench_method or db_bench_system call, suspended in
\* its await.
Coroutine(node, entry) ==
    [node |-> node, entry |-> entry, st |-> "awaiting", error |-> "",
     block_number |-> -1, created |-> FALSE, row |-> 0]

InitRoutine ==
    /\ IdleMerge
    /\ gen_out = [kind |-> "idle"]
    /\ urls = RoutineNodes
    /\ heights \in RoutineHeights
    /\ chain = <<>>
    /\ starknet_version = <<>>
    /\ \/ pc = "for_rpc" /\ cur \in 1..Len(methods)
       \/ pc = "for_sys" /\ cur \in 1..Len(metrics)
    /\ session = <<>>
    /\ inputs = <<>>
    /\ block_nos = <<>>
    /\ sync_status = <<>>
    /\ futures_bench = <<>>
    /\ launched = <<>>
    /\ issued = <<>>
    /\ now = 0
    /\ result = {}
    /\ BlockDB = {}
    /\ BenchmarkRpcDB = <<>>
    /\ BenchmarkSystemDB = <<>>
    /\ cycles = 0
    /\ response = <<>>
    /\ routine = [state |-> "running", logged |-> <<>>]

\* The variables SpecRoutine leaves alone.
routine_idle == <<merge_vars, chain_vars, gen_out, session, inputs, block_nos, sync_status,
                  futures_bench, issued, now, response>>

\* for method_rpc, method_db, samples, interval in methods: await
\* asyncio.gather(...) of one db_bench_method per node. Each coroutine runs up
\* to the await of benchmark_rpc.
gather_db_bench_method ==
    /\ routine.state = "running"
    /\ pc = "for_rpc"
    /\ cycles < MaxCycles
    /\ launched' = launched \o
           [k \in 1..Len(urls) |-> Coroutine(urls[k], methods[cur].method_rpc)]
    /\ pc' = "gather"
    /\ UNCHANGED <<routine_idle, cur, result, BlockDB, BenchmarkRpcDB, BenchmarkSystemDB,
                   cycles, routine>>

\* benchmark_rpc returns in the call k: db_bench_method looks the block up,
\* makes it if the store has none, adds the benchmark row and commits, with no
\* await in between. An exception of the commit leaves db_bench_method and the
\* gather, and db_bench_routine with it.
await_benchmark_rpc_returns(k) ==
    /\ k \in DOMAIN launched
    /\ launched[k].st = "awaiting"
    /\ launched[k].node # "all"
    /\ "return" \in benchmark_rpc(launched[k].entry)
    /\ LET node_rpc == launched[k].node
           e == Measured(SessionElapsed, cycles + k)
           node_results == NodeResponseBenchRpc(node_rpc, heights[node_rpc], e[1], e[2], e[3])
           block_db == s_get(BlockDB, node_results.block_number)
           method_db == (CHOOSE m \in {methods[i] : i \in DOMAIN methods} :
                            m.method_rpc = launched[k].entry).method_db
           benchmark == [node_idx |-> NodeDB(node_rpc),
                         method_idx |-> method_db,
                         elapsed_avg |-> node_results.elapsed_avg,
                         elapsed_low |-> node_results.elapsed_low,
                         elapsed_high |-> node_results.elapsed_high,
                         block_id |-> node_results.block_number]
       IN  IF commit(BlockDB, block_db, node_results.block_number) = "ok"
           THEN /\ BlockDB' = BlockDB \cup {node_results.block_number}
                /\ BenchmarkRpcDB' = Append(BenchmarkRpcDB, benchmark)
                /\ launched' = [launched EXCEPT ![k] =
                       [@ EXCEPT !.st = "stored",
                                 !.block_number = node_results.block_number,
                                 !.created = (block_db = <<>>),
                                 !.row = Len(BenchmarkRpcDB) + 1]]
                /\ UNCHANGED <<routine, pc>>
           ELSE /\ launched' = [launched EXCEPT ![k] =
                       [@ EXCEPT !.st = "raised", !.error = "IntegrityError",
                                 !.block_number = node_results.block_number]]
                /\ routine' = [routine EXCEPT !.state = "terminated"]
                /\ pc' = "terminated"
                /\ UNCHANGED <<BlockDB, BenchmarkRpcDB>>
    /\ UNCHANGED <<routine_idle, cur, result, BenchmarkSystemDB, cycles>>

\* benchmark_rpc raises in the call k: the except clauses of db_bench_method.
await_benchmark_rpc_raises(k) ==
    /\ k \in DOMAIN launched
    /\ launched[k].st = "awaiting"
    /\ launched[k].node # "all"
    /\ \E e \in benchmark_rpc(launched[k].entry) \ {"return"} :
          LET st == db_bench_method_except(e) IN
          /\ launched' = [launched EXCEPT ![k] =
                 [@ EXCEPT !.st = st, !.error = IF st = "skipped" THEN "" ELSE e]]
          /\ IF st = "raised"
             THEN routine' = [routine EXCEPT !.state = "terminated"] /\ pc' = "terminated"
             ELSE UNCHANGED <<routine, pc>>
    /\ UNCHANGED <<routine_idle, cur, result, BlockDB, BenchmarkRpcDB, BenchmarkSystemDB,
                   cycles>>

\* for metrics_app, metrics_db, samples, interval in metrics: await
\* db_bench_system(...), which runs up to the await of benchmark_system.
await_db_bench_system ==
    /\ routine.state = "running"
    /\ pc = "for_sys"
    /\ cycles < MaxCycles
    /\ launched' = launched \o <<Coroutine("all", metrics[cur].metrics_app)>>
    /\ pc' = "await"
    /\ UNCHANGED <<routine_idle, cur, result, BlockDB, BenchmarkRpcDB, BenchmarkSystemDB,
                   cycles, routine>>

\* benchmark_system returns: one row per node, each with the block it looked up
\* or made, and one commit.
await_benchmark_system_returns(k) ==
    /\ k \in DOMAIN launched
    /\ launched[k].st = "awaiting"
    /\ launched[k].node = "all"
    /\ "return" \in benchmark_system(launched[k].entry)
    /\ LET system_results ==
               [n \in 1..Len(urls) |->
                   ResponseModelSystem(urls[n], launched[k].entry, heights[urls[n]],
                                       Measured(SystemValues, cycles + n))]
           metrics_db == (CHOOSE m \in {metrics[i] : i \in DOMAIN metrics} :
                             m.metrics_app = launched[k].entry).metrics_db
           refused == \E n \in 1..Len(system_results) :
                         commit(BlockDB, s_get(BlockDB, system_results[n].block_number),
                                system_results[n].block_number) # "ok"
       IN  IF ~refused
           THEN /\ BlockDB' = BlockDB \cup
                       {system_results[n].block_number : n \in 1..Len(system_results)}
                /\ BenchmarkSystemDB' = BenchmarkSystemDB \o
                       [n \in 1..Len(system_results) |->
                           [node_idx |-> NodeDB(system_results[n].node),
                            metrics_idx |-> metrics_db,
                            value |-> system_results[n].value,
                            block_id |-> system_results[n].block_number]]
                /\ launched' = [launched EXCEPT ![k] =
                       [@ EXCEPT !.st = "stored", !.row = Len(BenchmarkSystemDB) + 1]]
                /\ UNCHANGED <<routine, pc>>
           ELSE /\ launched' = [launched EXCEPT ![k] =
                       [@ EXCEPT !.st = "raised", !.error = "IntegrityError"]]
                /\ routine' = [routine EXCEPT !.state = "terminated"]
                /\ pc' = "terminated"
                /\ UNCHANGED <<BlockDB, BenchmarkSystemDB>>
    /\ UNCHANGED <<routine_idle, cur, result, BenchmarkRpcDB, cycles>>

\* benchmark_system raises: the except Exception of db_bench_system reads the
\* latest blocks, logs and returns.
await_benchmark_system_raises(k) ==
    /\ k \in DOMAIN launched
    /\ launched[k].st = "awaiting"
    /\ launched[k].node = "all"
    /\ \E e \in benchmark_system(launched[k].entry) \ {"return"} :
          launched' = [launched EXCEPT ![k] = [@ EXCEPT !.st = "unexpected", !.error = e]]
    /\ UNCHANGED <<routine_idle, pc, cur, result, BlockDB, BenchmarkRpcDB, BenchmarkSystemDB,
                   cycles, routine>>

\* The await of db_bench_routine returns and the for loop takes its next
\* entry; after the last metric the while True loop starts over with the first
\* method. result keeps the ways the calls of the entry ended.
await_returns ==
    /\ routine.state = "running"
    /\ pc \in {"gather", "await"}
    /\ launched # <<>>
    /\ gathered(launched)
    /\ result' = {launched[k].st : k \in DOMAIN launched}
    /\ launched' = SelectSeq(launched, LAMBDA c : c.st = "awaiting")
    /\ cycles' = cycles + 1
    /\ IF pc = "gather"
       THEN IF cur < Len(methods)
            THEN pc' = "for_rpc" /\ cur' = cur + 1
            ELSE pc' = "for_sys" /\ cur' = 1
       ELSE IF cur < Len(metrics)
            THEN pc' = "for_sys" /\ cur' = cur + 1
            ELSE pc' = "for_rpc" /\ cur' = 1
    /\ UNCHANGED <<routine_idle, BlockDB, BenchmarkRpcDB, BenchmarkSystemDB, routine>>

NextRoutine ==
    \/ gather_db_bench_method
    \/ \E k \in DOMAIN launched : await_benchmark_rpc_returns(k)
    \/ \E k \in DOMAIN launched : await_benchmark_rpc_raises(k)
    \/ await_db_bench_system
    \/ \E k \in DOMAIN launched : await_benchmark_system_returns(k)
    \/ \E k \in DOMAIN launched : await_benchmark_system_raises(k)
    \/ await_returns

SpecRoutine == InitRoutine /\ [][NextRoutine]_vars

\* The db_bench_method calls suspended in their await.
InFlight ==
    {k \in DOMAIN launched : launched[k].st = "awaiting" /\ launched[k].node # "all"}

\* C21: every db_bench_method call in flight belongs to the method the for
\* loop of db_bench_routine is at, whose gather it is awaiting: the calls of
\* one method run together and the loop moves on only when none is in flight.
C21_OneMethodInFlight ==
    \A k \in InFlight :
        /\ pc = "gather"
        /\ launched[k].entry = methods[cur].method_rpc

C21_Witness ==
    /\ pc = "gather"
    /\ cycles >= 1
    /\ Len(launched) = Len(RoutineNodes)
    /\ launched[1].st # "awaiting"
    /\ {2, 3} \subseteq InFlight

\* The db_bench_method calls that stored their summary.
Stored ==
    {k \in DOMAIN launched : launched[k].st = "stored" /\ launched[k].node # "all"}

\* C22: whatever the order in which the calls of a gather resume, no commit is
\* refused, every call that stored has its row in benchmarkrpcdb and its block
\* in blockdb, no two calls made the same block, and a block the store did not
\* have before the gather was made by exactly one of them.
C22_StoreWithoutLocking ==
    /\ \A k \in DOMAIN launched : launched[k].st # "raised"
    /\ \A k \in Stored :
        /\ launched[k].block_number \in BlockDB
        /\ launched[k].row \in DOMAIN BenchmarkRpcDB
        /\ BenchmarkRpcDB[launched[k].row].node_idx = NodeDB(launched[k].node)
        /\ BenchmarkRpcDB[launched[k].row].block_id = launched[k].block_number
    /\ \A k, j \in Stored :
        k # j => /\ launched[k].row # launched[j].row
                 /\ launched[k].block_number = launched[j].block_number =>
                        ~(launched[k].created /\ launched[j].created)
    /\ cycles = 0 =>
        \A k \in Stored :
            \E j \in Stored : /\ launched[j].block_number = launched[k].block_number
                              /\ launched[j].created

C22_Witness ==
    /\ cycles = 0
    /\ Stored = DOMAIN launched
    /\ \E k, j \in Stored :
        /\ k # j
        /\ launched[k].block_number = launched[j].block_number
        /\ launched[k].created
        /\ ~launched[j].created
    /\ \E k, j \in Stored : launched[k].block_number # launched[j].block_number

\* C29: no call of the job fails at the look-up of the tools of its method.
C29_CatalogueDispatches ==
    \A k \in DOMAIN launched : launched[k].error # "KeyError"

\* -------------------------------------------------------------------------
\* SpecRoutineFair: the rounds under a fair event loop
\* -------------------------------------------------------------------------

\* The event loop runs the coroutines that are ready, and every await of a
\* node or of the store returns: while a step of the routine or of one of its
\* calls is possible, one is taken.
SpecRoutineFair == SpecRoutine /\ WF_vars(NextRoutine)

\* The entry after the one the routine is at: the next method, the first
\* metric after the last method, the first method after the last metric.
EntryAfter ==
    IF pc = "gather"
    THEN IF cur < Len(methods) THEN <<"for_rpc", cur + 1>> ELSE <<"for_sys", 1>>
    ELSE IF cur < Len(metrics) THEN <<"for_sys", cur + 1>> ELSE <<"for_rpc", 1>>

====
